---- MODULE Spec2Model ----
(***************************************************************************)
(* Model of the ow2stats scraper (scrape/src): the configuration sweep of  *)
(* OverwatchScraper.scrape_all_configurations, the per-configuration       *)
(* fetch/transform pipeline (_scrape_stats_page, _fetch_data), the retry   *)
(* and pacing policy, and BackendClient.upload_stats.                      *)
(*                                                                         *)
(* The sweep is single-threaded; the model follows its control position    *)
(* (pc) through the nested loops, with one action per step between two     *)
(* suspension points (a network call or a sleep).                          *)
(***************************************************************************)
EXTENDS Integers, Sequences, FiniteSets, TLC

\* ------------------------------------------------------------------ bounds

\* Largest retry_attempts setting explored (the default is 3).
MaxRetry == 2

\* Largest number of rate rows in a response envelope.
MaxRows == 2

\* --------------------------------------------------------- configuration

\* Settings.retry_attempts values explored: 0 (no attempt at all) up to MaxRetry.
RetryChoices ==
    0..MaxRetry

\* Settings.retry_delay (default).
retry_delay == 2

\* Settings.rate_limit_delay pairs explored: the default (2, 5).
RateLimitChoices ==
    {<<2, 5>>}

\* Settings.platforms / regions / gamemodes / tiers / maps values explored:
\* selections of the default lists, from a single configuration up to two
\* values in every dimension.
DimensionChoices ==
    { [ platforms |-> <<"PC">>, regions |-> <<"Americas">>,
        gamemodes |-> <<"Quick Play">>, tiers |-> <<"All">>,
        maps |-> <<"All">> ],
      [ platforms |-> <<"PC", "Console">>, regions |-> <<"Americas">>,
        gamemodes |-> <<"Quick Play">>, tiers |-> <<"All", "Bronze">>,
        maps |-> <<"All">> ],
      [ platforms |-> <<"PC">>, regions |-> <<"Americas", "Europe">>,
        gamemodes |-> <<"Quick Play", "Competitive">>,
        tiers |-> <<"All", "Bronze">>, maps |-> <<"All">> ],
      [ platforms |-> <<"PC">>, regions |-> <<"Americas">>,
        gamemodes |-> <<"Competitive", "Quick Play">>,
        tiers |-> <<"All", "Bronze">>, maps |-> <<"All", "Busan">> ] }

\* Settings.backend_url values explored, as a sequence of tokens in which
\* every trailing "/" is a token of its own.
BackendUrlChoices ==
    {<<"http://localhost:3000">>, <<"http://localhost:3000", "/">>}

\* Settings.base_url (default).
base_url ==
    "https://overwatch.blizzard.com/en-us/rates/data/"

\* The resolved Settings objects explored.
Settings ==
    { [ base_url         |-> base_url,
        platforms        |-> d.platforms,
        regions          |-> d.regions,
        gamemodes        |-> d.gamemodes,
        tiers            |-> d.tiers,
        maps             |-> d.maps,
        retry_attempts   |-> n,
        retry_delay      |-> retry_delay,
        rate_limit_delay |-> rl,
        backend_url      |-> u ] :
        d \in DimensionChoices, n \in RetryChoices,
        rl \in RateLimitChoices, u \in BackendUrlChoices }

\* ------------------------------------------------------------- strings

\* The strings of the model, each with its characters in order.
Chars ==
    ( "PC"                    :> <<"P", "C">>
   @@ "Console"               :> <<"C", "o", "n", "s", "o", "l", "e">>
   @@ "pc"                    :> <<"p", "c">>
   @@ "Americas"              :> <<"A", "m", "e", "r", "i", "c", "a", "s">>
   @@ "Europe"                :> <<"E", "u", "r", "o", "p", "e">>
   @@ "Asia"                  :> <<"A", "s", "i", "a">>
   @@ "Quick Play"            :> <<"Q", "u", "i", "c", "k", " ", "P", "l", "a", "y">>
   @@ "Competitive"           :> <<"C", "o", "m", "p", "e", "t", "i", "t", "i", "v", "e">>
   @@ "COMPETITIVE"           :> <<"C", "O", "M", "P", "E", "T", "I", "T", "I", "V", "E">>
   @@ "competitive"           :> <<"c", "o", "m", "p", "e", "t", "i", "t", "i", "v", "e">>
   @@ "Arcade"                :> <<"A", "r", "c", "a", "d", "e">>
   @@ "All"                   :> <<"A", "l", "l">>
   @@ "all"                   :> <<"a", "l", "l">>
   @@ "Bronze"                :> <<"B", "r", "o", "n", "z", "e">>
   @@ "Grandmaster"           :> <<"G", "r", "a", "n", "d", "m", "a", "s", "t", "e", "r">>
   @@ "Busan"                 :> <<"B", "u", "s", "a", "n">>
   @@ "BUSAN"                 :> <<"B", "U", "S", "A", "N">>
   @@ " Busan "               :> <<" ", "B", "u", "s", "a", "n", " ">>
   @@ "Busán"                 :> <<"B", "u", "s", "á", "n">>
   @@ "King's Row"            :> <<"K", "i", "n", "g", "'", "s", " ", "R", "o", "w">>
   @@ "Kings Row"             :> <<"K", "i", "n", "g", "s", " ", "R", "o", "w">>
   @@ "KING'S ROW"            :> <<"K", "I", "N", "G", "'", "S", " ", "R", "O", "W">>
   @@ "Paraíso"               :> <<"P", "a", "r", "a", "í", "s", "o">>
   @@ "paraiso"               :> <<"p", "a", "r", "a", "i", "s", "o">>
   @@ "PARAÍSO"               :> <<"P", "A", "R", "A", "Í", "S", "O">>
   @@ "Esperança"             :> <<"E", "s", "p", "e", "r", "a", "n", "ç", "a">>
   @@ "Esperanca"             :> <<"E", "s", "p", "e", "r", "a", "n", "c", "a">>
   @@ "New Queen Street"      :> <<"N", "e", "w", " ", "Q", "u", "e", "e", "n", " ", "S", "t", "r", "e", "e", "t">>
   @@ "Temple of Anubis"      :> <<"T", "e", "m", "p", "l", "e", " ", "o", "f", " ", "A", "n", "u", "b", "i", "s">>
   @@ "Throne of Anubis"      :> <<"T", "h", "r", "o", "n", "e", " ", "o", "f", " ", "A", "n", "u", "b", "i", "s">>
   @@ "Horizon Lunar Colony"  :> <<"H", "o", "r", "i", "z", "o", "n", " ", "L", "u", "n", "a", "r", " ", "C", "o", "l", "o", "n", "y">>
   @@ "Genji"                 :> <<"G", "e", "n", "j", "i">>
   @@ "genji"                 :> <<"g", "e", "n", "j", "i">>
   @@ "Ana"                   :> <<"A", "n", "a">>
   @@ "ana"                   :> <<"a", "n", "a">>
   @@ "Damage"                :> <<"D", "a", "m", "a", "g", "e">>
   @@ "damage"                :> <<"d", "a", "m", "a", "g", "e">>
   @@ "Support"               :> <<"S", "u", "p", "p", "o", "r", "t">>
   @@ "support"               :> <<"s", "u", "p", "p", "o", "r", "t">>
   @@ "Antarctic Peninsula"   :> <<"A", "n", "t", "a", "r", "c", "t", "i", "c", " ", "P", "e", "n", "i", "n", "s", "u", "l", "a">>
   @@ "Ilios"                 :> <<"I", "l", "i", "o", "s">>
   @@ "Lijiang Tower"         :> <<"L", "i", "j", "i", "a", "n", "g", " ", "T", "o", "w", "e", "r">>
   @@ "Nepal"                 :> <<"N", "e", "p", "a", "l">>
   @@ "Oasis"                 :> <<"O", "a", "s", "i", "s">>
   @@ "Samoa"                 :> <<"S", "a", "m", "o", "a">>
   @@ "Circuit Royal"         :> <<"C", "i", "r", "c", "u", "i", "t", " ", "R", "o", "y", "a", "l">>
   @@ "Dorado"                :> <<"D", "o", "r", "a", "d", "o">>
   @@ "Havana"                :> <<"H", "a", "v", "a", "n", "a">>
   @@ "Junkertown"            :> <<"J", "u", "n", "k", "e", "r", "t", "o", "w", "n">>
   @@ "Rialto"                :> <<"R", "i", "a", "l", "t", "o">>
   @@ "Route 66"              :> <<"R", "o", "u", "t", "e", " ", "6", "6">>
   @@ "Shambali Monastery"    :> <<"S", "h", "a", "m", "b", "a", "l", "i", " ", "M", "o", "n", "a", "s", "t", "e", "r", "y">>
   @@ "Watchpoint: Gibraltar" :> <<"W", "a", "t", "c", "h", "p", "o", "i", "n", "t", ":", " ", "G", "i", "b", "r", "a", "l", "t", "a", "r">>
   @@ "Aatlis"                :> <<"A", "a", "t", "l", "i", "s">>
   @@ "New Junk City"         :> <<"N", "e", "w", " ", "J", "u", "n", "k", " ", "C", "i", "t", "y">>
   @@ "Suravasa"              :> <<"S", "u", "r", "a", "v", "a", "s", "a">>
   @@ "Blizzard World"        :> <<"B", "l", "i", "z", "z", "a", "r", "d", " ", "W", "o", "r", "l", "d">>
   @@ "Eichenwalde"           :> <<"E", "i", "c", "h", "e", "n", "w", "a", "l", "d", "e">>
   @@ "Hollywood"             :> <<"H", "o", "l", "l", "y", "w", "o", "o", "d">>
   @@ "Midtown"               :> <<"M", "i", "d", "t", "o", "w", "n">>
   @@ "Numbani"               :> <<"N", "u", "m", "b", "a", "n", "i">>
   @@ "Colosseo"              :> <<"C", "o", "l", "o", "s", "s", "e", "o">>
   @@ "Runasapi"              :> <<"R", "u", "n", "a", "s", "a", "p", "i">>
   @@ "Hanaoka"               :> <<"H", "a", "n", "a", "o", "k", "a">>
   @@ "gibraltar"             :> <<"g", "i", "b", "r", "a", "l", "t", "a", "r">>
   @@ ""                      :> <<>>
   @@ "control"               :> <<"c", "o", "n", "t", "r", "o", "l">>
   @@ "escort"                :> <<"e", "s", "c", "o", "r", "t">>
   @@ "hybrid"                :> <<"h", "y", "b", "r", "i", "d">>
   @@ "push"                  :> <<"p", "u", "s", "h">>
   @@ "flashpoint"            :> <<"f", "l", "a", "s", "h", "p", "o", "i", "n", "t">>
   @@ "clash"                 :> <<"c", "l", "a", "s", "h">>
   @@ "all-maps"              :> <<"a", "l", "l", "-", "m", "a", "p", "s">>
   @@ "console"               :> <<"c", "o", "n", "s", "o", "l", "e">>
   @@ "americas"              :> <<"a", "m", "e", "r", "i", "c", "a", "s">>
   @@ "europe"                :> <<"e", "u", "r", "o", "p", "e">>
   @@ "asia"                  :> <<"a", "s", "i", "a">>
   @@ "quick play"            :> <<"q", "u", "i", "c", "k", " ", "p", "l", "a", "y">>
   @@ "quick-play"            :> <<"q", "u", "i", "c", "k", "-", "p", "l", "a", "y">>
   @@ "arcade"                :> <<"a", "r", "c", "a", "d", "e">>
   @@ "bronze"                :> <<"b", "r", "o", "n", "z", "e">>
   @@ "grandmaster"           :> <<"g", "r", "a", "n", "d", "m", "a", "s", "t", "e", "r">>
   @@ "busan"                 :> <<"b", "u", "s", "a", "n">>
   @@ " busan "               :> <<" ", "b", "u", "s", "a", "n", " ">>
   @@ "-busan-"               :> <<"-", "b", "u", "s", "a", "n", "-">>
   @@ "busán"                 :> <<"b", "u", "s", "á", "n">>
   @@ "king's row"            :> <<"k", "i", "n", "g", "'", "s", " ", "r", "o", "w">>
   @@ "king's-row"            :> <<"k", "i", "n", "g", "'", "s", "-", "r", "o", "w">>
   @@ "kings row"             :> <<"k", "i", "n", "g", "s", " ", "r", "o", "w">>
   @@ "kings-row"             :> <<"k", "i", "n", "g", "s", "-", "r", "o", "w">>
   @@ "paraíso"               :> <<"p", "a", "r", "a", "í", "s", "o">>
   @@ "esperança"             :> <<"e", "s", "p", "e", "r", "a", "n", "ç", "a">>
   @@ "esperanca"             :> <<"e", "s", "p", "e", "r", "a", "n", "c", "a">>
   @@ "new queen street"      :> <<"n", "e", "w", " ", "q", "u", "e", "e", "n", " ", "s", "t", "r", "e", "e", "t">>
   @@ "new-queen-street"      :> <<"n", "e", "w", "-", "q", "u", "e", "e", "n", "-", "s", "t", "r", "e", "e", "t">>
   @@ "temple of anubis"      :> <<"t", "e", "m", "p", "l", "e", " ", "o", "f", " ", "a", "n", "u", "b", "i", "s">>
   @@ "temple-of-anubis"      :> <<"t", "e", "m", "p", "l", "e", "-", "o", "f", "-", "a", "n", "u", "b", "i", "s">>
   @@ "throne of anubis"      :> <<"t", "h", "r", "o", "n", "e", " ", "o", "f", " ", "a", "n", "u", "b", "i", "s">>
   @@ "throne-of-anubis"      :> <<"t", "h", "r", "o", "n", "e", "-", "o", "f", "-", "a", "n", "u", "b", "i", "s">>
   @@ "horizon lunar colony"  :> <<"h", "o", "r", "i", "z", "o", "n", " ", "l", "u", "n", "a", "r", " ", "c", "o", "l", "o", "n", "y">>
   @@ "horizon-lunar-colony"  :> <<"h", "o", "r", "i", "z", "o", "n", "-", "l", "u", "n", "a", "r", "-", "c", "o", "l", "o", "n", "y">>
   @@ "antarctic peninsula"   :> <<"a", "n", "t", "a", "r", "c", "t", "i", "c", " ", "p", "e", "n", "i", "n", "s", "u", "l", "a">>
   @@ "antarctic-peninsula"   :> <<"a", "n", "t", "a", "r", "c", "t", "i", "c", "-", "p", "e", "n", "i", "n", "s", "u", "l", "a">>
   @@ "ilios"                 :> <<"i", "l", "i", "o", "s">>
   @@ "lijiang tower"         :> <<"l", "i", "j", "i", "a", "n", "g", " ", "t", "o", "w", "e", "r">>
   @@ "lijiang-tower"         :> <<"l", "i", "j", "i", "a", "n", "g", "-", "t", "o", "w", "e", "r">>
   @@ "nepal"                 :> <<"n", "e", "p", "a", "l">>
   @@ "oasis"                 :> <<"o", "a", "s", "i", "s">>
   @@ "samoa"                 :> <<"s", "a", "m", "o", "a">>
   @@ "circuit royal"         :> <<"c", "i", "r", "c", "u", "i", "t", " ", "r", "o", "y", "a", "l">>
   @@ "circuit-royal"         :> <<"c", "i", "r", "c", "u", "i", "t", "-", "r", "o", "y", "a", "l">>
   @@ "dorado"                :> <<"d", "o", "r", "a", "d", "o">>
   @@ "havana"                :> <<"h", "a", "v", "a", "n", "a">>
   @@ "junkertown"            :> <<"j", "u", "n", "k", "e", "r", "t", "o", "w", "n">>
   @@ "rialto"                :> <<"r", "i", "a", "l", "t", "o">>
   @@ "route 66"              :> <<"r", "o", "u", "t", "e", " ", "6", "6">>
   @@ "route-66"              :> <<"r", "o", "u", "t", "e", "-", "6", "6">>
   @@ "shambali monastery"    :> <<"s", "h", "a", "m", "b", "a", "l", "i", " ", "m", "o", "n", "a", "s", "t", "e", "r", "y">>
   @@ "shambali-monastery"    :> <<"s", "h", "a", "m", "b", "a", "l", "i", "-", "m", "o", "n", "a", "s", "t", "e", "r", "y">>
   @@ "watchpoint: gibraltar" :> <<"w", "a", "t", "c", "h", "p", "o", "i", "n", "t", ":", " ", "g", "i", "b", "r", "a", "l", "t", "a", "r">>
   @@ "watchpoint:-gibraltar" :> <<"w", "a", "t", "c", "h", "p", "o", "i", "n", "t", ":", "-", "g", "i", "b", "r", "a", "l", "t", "a", "r">>
   @@ "aatlis"                :> <<"a", "a", "t", "l", "i", "s">>
   @@ "new junk city"         :> <<"n", "e", "w", " ", "j", "u", "n", "k", " ", "c", "i", "t", "y">>
   @@ "new-junk-city"         :> <<"n", "e", "w", "-", "j", "u", "n", "k", "-", "c", "i", "t", "y">>
   @@ "suravasa"              :> <<"s", "u", "r", "a", "v", "a", "s", "a">>
   @@ "blizzard world"        :> <<"b", "l", "i", "z", "z", "a", "r", "d", " ", "w", "o", "r", "l", "d">>
   @@ "blizzard-world"        :> <<"b", "l", "i", "z", "z", "a", "r", "d", "-", "w", "o", "r", "l", "d">>
   @@ "eichenwalde"           :> <<"e", "i", "c", "h", "e", "n", "w", "a", "l", "d", "e">>
   @@ "hollywood"             :> <<"h", "o", "l", "l", "y", "w", "o", "o", "d">>
   @@ "midtown"               :> <<"m", "i", "d", "t", "o", "w", "n">>
   @@ "numbani"               :> <<"n", "u", "m", "b", "a", "n", "i">>
   @@ "colosseo"              :> <<"c", "o", "l", "o", "s", "s", "e", "o">>
   @@ "runasapi"              :> <<"r", "u", "n", "a", "s", "a", "p", "i">>
   @@ "hanaoka"               :> <<"h", "a", "n", "a", "o", "k", "a">> )

\* The string of the model that has the given characters.
Str(chars) ==
    CHOOSE s \in DOMAIN Chars : Chars[s] = chars

\* The letters str.lower() changes, and what it changes each one to.
UpperCase ==
    << "A", "B", "C", "D", "E", "F", "G", "H", "I", "J", "K", "L", "M", "N",
       "O", "P", "Q", "R", "S", "T", "U", "V", "W", "X", "Y", "Z", "Á", "Í", "Ç" >>

LowerCase ==
    << "a", "b", "c", "d", "e", "f", "g", "h", "i", "j", "k", "l", "m", "n",
       "o", "p", "q", "r", "s", "t", "u", "v", "w", "x", "y", "z", "á", "í", "ç" >>

\* str.lower() on one character.
LowerChar(c) ==
    IF \E k \in DOMAIN UpperCase : UpperCase[k] = c
    THEN LowerCase[CHOOSE k \in DOMAIN UpperCase : UpperCase[k] = c]
    ELSE c

\* str.lower() on every string of the model, character by character.
LowerOf ==
    [s \in DOMAIN Chars |->
        Str([i \in DOMAIN Chars[s] |-> LowerChar(Chars[s][i])])]

\* str.lower().
Lower(s) ==
    LowerOf[s]

\* str.replace(old, new) for one-character old and new: every occurrence.
Replace(s, old, new) ==
    Str([i \in DOMAIN Chars[s] |->
          IF Chars[s][i] = old THEN new ELSE Chars[s][i]])

RECURSIVE StripChars(_)
\* The characters left by str.strip(): no blank at either end.
StripChars(chars) ==
    IF chars = <<>> THEN <<>>
    ELSE IF Head(chars) = " " THEN StripChars(Tail(chars))
    ELSE IF chars[Len(chars)] = " " THEN StripChars(SubSeq(chars, 1, Len(chars) - 1))
    ELSE chars

\* str.strip().
Strip(s) ==
    Str(StripChars(Chars[s]))

\* ------------------------------------------------------------ work list

RECURSIVE Flatten(_)
\* Concatenation of a sequence of sequences: the effect of appending, in
\* order, inside nested for loops.
Flatten(ss) ==
    IF ss = <<>> THEN <<>> ELSE Head(ss) \o Flatten(Tail(ss))


\* tiers_to_scrape without the gamemode test: every gamemode gets the tiers.
TiersToScrapeAlways(c, gamemode) ==
    c.tiers

\* tiers_to_scrape for one gamemode.
TiersToScrape(c, gamemode) ==
    IF gamemode = "Competitive" THEN c.tiers ELSE <<"All">>


\* BuildConfigurations with the map loop outside the gamemode loop.
BuildConfigurationsMapOuter(c) ==
    Flatten([p \in 1..Len(c.platforms) |->
      Flatten([r \in 1..Len(c.regions) |->
        Flatten([m \in 1..Len(c.maps) |->
          Flatten([g \in 1..Len(c.gamemodes) |->
            LET tiers_to_scrape == TiersToScrape(c, c.gamemodes[g]) IN
            [t \in 1..Len(tiers_to_scrape) |->
              [ platform |-> c.platforms[p],
                region   |-> c.regions[r],
                gamemode |-> c.gamemodes[g],
                map_name |-> c.maps[m],
                tier     |-> tiers_to_scrape[t] ]]])])])])

\* The configurations list built by the five nested loops.
BuildConfigurations(c) ==
    Flatten([p \in 1..Len(c.platforms) |->
      Flatten([r \in 1..Len(c.regions) |->
        Flatten([g \in 1..Len(c.gamemodes) |->
          LET tiers_to_scrape == TiersToScrape(c, c.gamemodes[g]) IN
          Flatten([t \in 1..Len(tiers_to_scrape) |->
            [m \in 1..Len(c.maps) |->
              [ platform |-> c.platforms[p],
                region   |-> c.regions[r],
                gamemode |-> c.gamemodes[g],
                map_name |-> c.maps[m],
                tier     |-> tiers_to_scrape[t] ]]])])])])

\* ------------------------------------------------------------ data model

\* Field names of the dataclasses HeroCells and Hero: Cls(**d) accepts a
\* dict whose keys are exactly the fields (none has a default).
HeroCellsFields ==
    {"name", "pickrate", "winrate"}

HeroFields ==
    {"color", "name", "portrait", "role", "roleIcon"}

\* A JSON string value and a JSON number value, as found under "id".
JStr(s) ==
    [type |-> "str", val |-> s]

JNum(s) ==
    [type |-> "num", val |-> s]

\* Rate rows of a response body. Rates are in tenths of a percent.
GenjiRow ==
    [ id    |-> JStr("Genji"),
      cells |-> [name |-> "Genji", pickrate |-> 125, winrate |-> 482],
      hero  |-> [color |-> "#f00", name |-> "Genji", portrait |-> "g.png",
                 role |-> "Damage", roleIcon |-> "d.png"] ]

AnaRow ==
    [ id    |-> JStr("ana"),
      cells |-> [name |-> "Ana", pickrate |-> 301, winrate |-> 519],
      hero  |-> [color |-> "#00f", name |-> "Ana", portrait |-> "a.png",
                 role |-> "Support", roleIcon |-> "s.png"] ]

\* A row whose cells and hero objects lack fields of the dataclasses.
SparseRow ==
    [ id    |-> JStr("genji"),
      cells |-> [pickrate |-> 125, winrate |-> 482],
      hero  |-> [name |-> "Genji", role |-> "damage"] ]

\* A row without a "cells" key.
NoCellsRow ==
    [ id    |-> JStr("genji"),
      hero  |-> [color |-> "#f00", name |-> "Genji", portrait |-> "g.png",
                 role |-> "Damage", roleIcon |-> "d.png"] ]

\* A complete row whose id is a JSON number.
NumericIdRow ==
    [ id    |-> JNum("7"),
      cells |-> [name |-> "Genji", pickrate |-> 125, winrate |-> 482],
      hero  |-> [color |-> "#f00", name |-> "Genji", portrait |-> "g.png",
                 role |-> "Damage", roleIcon |-> "d.png"] ]

RowChoices ==
    {GenjiRow, AnaRow, SparseRow, NoCellsRow, NumericIdRow}

\* All sequences over S of length at most n.
SeqsUpTo(S, n) ==
    UNION {[1..k -> S] : k \in 0..n}

\* ------------------------------------------------------------- responses

\* Outcomes of requests.get / requests.post that raise a
\* requests.RequestException: no connection, timeout, and (through
\* raise_for_status) a non-2xx status.
TransportFailures ==
    {"connection_error", "timeout", "http_error"}

\* A response body that parsed to a JSON object: its top-level keys are the
\* record's fields. "extrema" and "selected" hold "valid" when they have the
\* shape Extrema / Selected need.
ObjectBodies ==
    LET rateLists == SeqsUpTo(RowChoices, MaxRows) IN
         {[rates |-> rs, extrema |-> "valid", selected |-> "valid"] : rs \in rateLists}
    \cup {[rates |-> rs, extrema |-> "valid"] : rs \in rateLists}
    \cup {[rates |-> rs, selected |-> "valid"] : rs \in rateLists}
    \cup {[extrema |-> "valid", selected |-> "valid"]}

\* What one GET can come back with: kind names the transport failure, or how
\* the 2xx body parses.
Responses ==
         {[kind |-> k, data |-> <<>>] : k \in TransportFailures}
    \cup {[kind |-> k, data |-> <<>>] : k \in {"not_json", "not_object"}}
    \cup {[kind |-> "object", data |-> b] : b \in ObjectBodies}

\* ------------------------------------------------------ fetch / transform

RECURSIVE Join(_, _)
\* sep.join(parts) on token sequences: the parts in order, sep between them.
Join(parts, sep) ==
    IF parts = <<>> THEN <<>>
    ELSE IF Len(parts) = 1 THEN Head(parts)
    ELSE Head(parts) \o <<sep>> \o Join(Tail(parts), sep)


\* _build_url comparing the gamemode as it came, as the work list does.
BuildUrlCaseSensitive(base, platform, region, role, gamemode, map_name, tier) ==
    LET rq_value  == IF gamemode = "Competitive" THEN "1" ELSE "0"
        map_param == IF map_name # "All"
                     THEN Replace(Lower(map_name), " ", "-")
                     ELSE "all-maps"
        params == << <<"input", platform>>, <<"map", map_param>>,
                     <<"region", region>>, <<"role", role>>,
                     <<"rq", rq_value>>, <<"tier", tier>> >>
        param_string ==
            Join([i \in DOMAIN params |-> <<params[i][1], "=", params[i][2]>>], "&")
    IN  <<base, "?">> \o param_string


\* _build_url without the replace(" ", "-"): the map name is lower-cased only.
BuildUrlKeepsSpaces(base, platform, region, role, gamemode, map_name, tier) ==
    LET rq_value  == IF Lower(gamemode) = "competitive" THEN "1" ELSE "0"
        map_param == IF map_name # "All" THEN Lower(map_name) ELSE "all-maps"
        params == << <<"input", platform>>, <<"map", map_param>>,
                     <<"region", region>>, <<"role", role>>,
                     <<"rq", rq_value>>, <<"tier", tier>> >>
        param_string ==
            Join([i \in DOMAIN params |-> <<params[i][1], "=", params[i][2]>>], "&")
    IN  <<base, "?">> \o param_string

\* _build_url: the request URL as a sequence of tokens. params is the dict
\* in insertion order, each item a <<key, value>> pair.
_build_url(base, platform, region, role, gamemode, map_name, tier) ==
    LET rq_value  == IF Lower(gamemode) = "competitive" THEN "1" ELSE "0"
        map_param == IF map_name # "All"
                     THEN Replace(Lower(map_name), " ", "-")
                     ELSE "all-maps"
        params == << <<"input", platform>>, <<"map", map_param>>,
                     <<"region", region>>, <<"role", role>>,
                     <<"rq", rq_value>>, <<"tier", tier>> >>
        param_string ==
            Join([i \in DOMAIN params |-> <<params[i][1], "=", params[i][2]>>], "&")
    IN  <<base, "?">> \o param_string


\* HeroRate(id=rate["id"], cells=HeroCells(**rate["cells"]),
\* hero=Hero(**rate["hero"])) raises KeyError or TypeError.
RowRaises(rate) ==
    \/ "id" \notin DOMAIN rate
    \/ "cells" \notin DOMAIN rate
    \/ "hero" \notin DOMAIN rate
    \/ /\ "cells" \in DOMAIN rate
       /\ DOMAIN rate.cells # HeroCellsFields
    \/ /\ "hero" \in DOMAIN rate
       /\ DOMAIN rate.hero # HeroFields

\* OverwatchStats.from_dict raises KeyError or TypeError.
FromDictRaises(data) ==
    \/ "rates" \notin DOMAIN data
    \/ /\ "rates" \in DOMAIN data
       /\ \E i \in 1..Len(data.rates) : RowRaises(data.rates[i])
    \/ "extrema" \notin DOMAIN data
    \/ "selected" \notin DOMAIN data

\* OverwatchStats.from_dict: the parsed envelope (its rates).
from_dict(data) ==
    [rates |-> data.rates]

\* _fetch_data: Optional[OverwatchStats], None being some = FALSE; raised
\* says that an exception leaves the function. Each except clause of the
\* function returns None: RequestException (transport failures),
\* json.JSONDecodeError, and KeyError / TypeError out of from_dict.
None ==
    [raised |-> FALSE, some |-> FALSE, rates |-> <<>>]


\* _fetch_data without its except rq.RequestException clause: a transport
\* failure leaves the function as an exception.
FetchDataLetsTransportErrorsOut(resp) ==
    IF resp.kind \in TransportFailures
    THEN [raised |-> TRUE, some |-> FALSE, rates |-> <<>>]
    ELSE IF resp.kind = "not_json" THEN None
    ELSE IF resp.kind = "not_object" \/ "selected" \notin DOMAIN resp.data THEN None
    ELSE IF FromDictRaises(resp.data) THEN None
    ELSE [raised |-> FALSE, some |-> TRUE, rates |-> from_dict(resp.data).rates]


\* _fetch_data without its except json.JSONDecodeError clause: a body that
\* is not JSON leaves the function as an exception.
FetchDataLetsJsonErrorsOut(resp) ==
    IF resp.kind \in TransportFailures THEN None
    ELSE IF resp.kind = "not_json"
    THEN [raised |-> TRUE, some |-> FALSE, rates |-> <<>>]
    ELSE IF resp.kind = "not_object" \/ "selected" \notin DOMAIN resp.data THEN None
    ELSE IF FromDictRaises(resp.data) THEN None
    ELSE [raised |-> FALSE, some |-> TRUE, rates |-> from_dict(resp.data).rates]

_fetch_data(resp) ==
    IF resp.kind \in TransportFailures THEN None
    ELSE IF resp.kind = "not_json" THEN None
    ELSE IF resp.kind = "not_object" \/ "selected" \notin DOMAIN resp.data THEN None
    ELSE IF FromDictRaises(resp.data) THEN None
    ELSE [raised |-> FALSE, some |-> TRUE, rates |-> from_dict(resp.data).rates]

\* The map_types table of _get_map_type.
map_types ==
    [ busan |-> "control", ilios |-> "control", nepal |-> "control",
      oasis |-> "control", samoa |-> "control", dorado |-> "escort",
      havana |-> "escort", junkertown |-> "escort", rialto |-> "escort",
      gibraltar |-> "escort", eichenwalde |-> "hybrid",
      hollywood |-> "hybrid", midtown |-> "hybrid", numbani |-> "hybrid",
      paraiso |-> "hybrid", colosseo |-> "push", esperanca |-> "push",
      runasapi |-> "push", suravasa |-> "flashpoint",
      aatlis |-> "flashpoint", hanaoka |-> "clash" ]
    @@ ( "lijiang tower" :> "control" @@ "antarctic peninsula" :> "control"
      @@ "circuit royal" :> "escort" @@ "route 66" :> "escort"
      @@ "shambali monastery" :> "escort"
      @@ "watchpoint: gibraltar" :> "escort"
      @@ "blizzard world" :> "hybrid" @@ "king's row" :> "hybrid"
      @@ "kings row" :> "hybrid" @@ "paraíso" :> "hybrid"
      @@ "esperança" :> "push" @@ "new queen street" :> "push"
      @@ "new junk city" :> "flashpoint" @@ "throne of anubis" :> "clash" )


\* _get_map_type looking the name up as it came, stripped but not lower-cased.
GetMapTypeCaseSensitive(map) ==
    LET normalized_name == Strip(map) IN
    IF normalized_name \in DOMAIN map_types THEN map_types[normalized_name] ELSE ""

\* _get_map_type: lookup of the lower-cased, stripped name.
_get_map_type(map) ==
    LET normalized_name == Strip(Lower(map)) IN
    IF normalized_name \in DOMAIN map_types THEN map_types[normalized_name] ELSE ""

\* The fields of the HeroStatsUpload dataclass.
HeroStatsUploadFields ==
    { "hero_id", "hero", "pick_rate", "win_rate", "region", "platform",
      "gamemode", "map", "tier", "timestamp" }

\* The keywords _transform_to_hero_stats passes to HeroStatsUpload.
TransformKeywords ==
    { "hero_id", "hero_class", "pick_rate", "win_rate", "region", "platform",
      "gamemode", "map", "map_type", "tier" }

\* _transform_to_hero_stats raises AttributeError: hero_rate.id.lower() and
\* hero_rate.hero.role.lower() need strings.
TransformRaises(hero_rate) ==
    hero_rate.id.type # "str"


\* _transform_to_hero_stats passing map_name as it came, not lower-cased.
TransformKeepsMapCase(hero_rate, platform, region, gamemode, map_name, tier) ==
    [ hero_id    |-> Lower(hero_rate.id.val),
      hero_class |-> Lower(hero_rate.hero.role),
      pick_rate  |-> hero_rate.cells.pickrate,
      win_rate   |-> hero_rate.cells.winrate,
      region     |-> Lower(region),
      platform   |-> Lower(platform),
      gamemode   |-> Lower(gamemode),
      map        |-> map_name,
      map_type   |-> Lower(_get_map_type(map_name)),
      tier       |-> Lower(tier) ]

\* _transform_to_hero_stats: the HeroStatsUpload record, with the fields the
\* call passes by keyword (the record type is taken to declare them).
_transform_to_hero_stats(hero_rate, platform, region, gamemode, map_name, tier) ==
    [ hero_id    |-> Lower(hero_rate.id.val),
      hero_class |-> Lower(hero_rate.hero.role),
      pick_rate  |-> hero_rate.cells.pickrate,
      win_rate   |-> hero_rate.cells.winrate,
      region     |-> Lower(region),
      platform   |-> Lower(platform),
      gamemode   |-> Lower(gamemode),
      map        |-> Lower(map_name),
      map_type   |-> Lower(_get_map_type(map_name)),
      tier       |-> Lower(tier) ]

\* _scrape_stats_page, lines 192-193: the URL of its GET, role being "all".
RequestUrl(base, config_dict) ==
    _build_url(base, config_dict.platform, config_dict.region, "all",
               config_dict.gamemode, config_dict.map_name, config_dict.tier)

\* _scrape_stats_page for one configuration, given what the GET comes back
\* with: the returned list, or raised = TRUE when an exception leaves it.
_scrape_stats_page(config_dict, resp) ==
    LET api_response == _fetch_data(resp) IN
    IF api_response.raised THEN [raised |-> TRUE, stats |-> <<>>]
    ELSE IF ~api_response.some THEN [raised |-> FALSE, stats |-> <<>>]
    ELSE IF api_response.rates = <<>> THEN [raised |-> FALSE, stats |-> <<>>]
    ELSE IF \E i \in 1..Len(api_response.rates) : TransformRaises(api_response.rates[i])
    THEN [raised |-> TRUE, stats |-> <<>>]
    ELSE [ raised |-> FALSE,
           stats  |-> [i \in 1..Len(api_response.rates) |->
                        _transform_to_hero_stats(api_response.rates[i],
                            config_dict.platform, config_dict.region,
                            config_dict.gamemode, config_dict.map_name,
                            config_dict.tier)] ]

\* --------------------------------------------------------- backend client

RECURSIVE RStripSlash(_)
\* backend_url.rstrip("/").
RStripSlash(url) ==
    IF url # <<>> /\ url[Len(url)] = "/"
    THEN RStripSlash(SubSeq(url, 1, Len(url) - 1))
    ELSE url

\* BackendClient.batch_upload_url as set by __init__.
batch_upload_url(backend_url) ==
    RStripSlash(backend_url) \o <<"/api/v1/heroes/batch">>


\* The logging.Logger objects handed to a constructor: the scraper's own
\* (_setup_logging) and the root logger.
LoggerArgs ==
    {[name |-> "overwatch_scraper"], [name |-> "root"]}

\* backend_url values handed to a constructor: the empty string, a lone "/",
\* and the values explored as settings.
BackendUrlArgs ==
    {<<>>, <<"/">>} \cup BackendUrlChoices

\* BackendClient.__init__ without its "if not backend_url" check.
BackendClientNoUrlCheck(args) ==
    IF Len(args) # 2 THEN [raised |-> "TypeError"]
    ELSE LET logger == args[1]
             backend_url == args[2] IN
         [ raised           |-> "none",
           backend_url      |-> RStripSlash(backend_url),
           batch_upload_url |-> batch_upload_url(backend_url),
           logger           |-> logger ]

\* BackendClient(*args): __init__(self, logger, backend_url) has two required
\* parameters, so a call with another number of positional arguments raises
\* TypeError before the body runs; the body raises ValueError on an empty
\* backend_url and otherwise sets the three attributes.
BackendClient(args) ==
    IF Len(args) # 2 THEN [raised |-> "TypeError"]
    ELSE LET logger == args[1]
             backend_url == args[2] IN
         IF backend_url = <<>> THEN [raised |-> "ValueError"]
         ELSE [ raised           |-> "none",
                backend_url      |-> RStripSlash(backend_url),
                batch_upload_url |-> batch_upload_url(backend_url),
                logger           |-> logger ]

\* OverwatchScraper(): __init__ takes the global config, sets up logging and
\* calls BackendClient(self.config.backend_url), with that one argument; an
\* exception of the call leaves __init__. The file system is taken to allow
\* the logs and cache directories.
OverwatchScraper(c) ==
    LET client == BackendClient(<<c.backend_url>>) IN
    IF client.raised # "none" THEN [raised |-> client.raised]
    ELSE [raised |-> "none", config |-> c, client |-> client]

\* The timeout passed to requests.post.
PostTimeout == 15

\* dataclasses.asdict of one record.
asdict(stat) ==
    [f \in DOMAIN stat |-> stat[f]]

\* What one POST can end in: a 2xx response, a requests.RequestException, or
\* an exception of another class leaving requests.post.
PostOutcomes ==
    {"ok"} \cup TransportFailures \cup {"other_error"}


\* upload_stats as in the revision that re-raises: a failed POST leaves the
\* function as an exception.
UploadStatsReraises(backend_url, stats, post) ==
    IF stats = <<>> THEN [requests |-> <<>>, raised |-> FALSE]
    ELSE LET payload == [i \in 1..Len(stats) |-> asdict(stats[i])] IN
         [ requests |-> << [ url     |-> batch_upload_url(backend_url),
                             json    |-> payload,
                             timeout |-> PostTimeout ] >>,
           raised   |-> post # "ok" ]


\* upload_stats without its "if not stats" guard: an empty list is posted too.
UploadStatsNoEmptyGuard(backend_url, stats, post) ==
    LET payload == [i \in 1..Len(stats) |-> asdict(stats[i])] IN
    [ requests |-> << [ url     |-> batch_upload_url(backend_url),
                        json    |-> payload,
                        timeout |-> PostTimeout ] >>,
      raised   |-> post \notin ({"ok"} \cup TransportFailures) ]

\* upload_stats posting the records one by one instead of as one batch.
UploadStatsPerRecord(backend_url, stats, post) ==
    IF stats = <<>> THEN [requests |-> <<>>, raised |-> FALSE]
    ELSE [ requests |-> [i \in 1..Len(stats) |->
                          [ url     |-> batch_upload_url(backend_url),
                            json    |-> <<asdict(stats[i])>>,
                            timeout |-> PostTimeout ]],
           raised   |-> post \notin ({"ok"} \cup TransportFailures) ]

\* BackendClient.upload_stats: the POST requests it issues, in order, and
\* whether an exception leaves it. post is what the POST ends in.
upload_stats(backend_url, stats, post) ==
    IF stats = <<>> THEN [requests |-> <<>>, raised |-> FALSE]
    ELSE LET payload == [i \in 1..Len(stats) |-> asdict(stats[i])] IN
         [ requests |-> << [ url     |-> batch_upload_url(backend_url),
                             json    |-> payload,
                             timeout |-> PostTimeout ] >>,
           raised   |-> post \notin ({"ok"} \cup TransportFailures) ]

\* OverwatchScraper._save_stats: returns at once on an empty list, otherwise
\* calls upload_stats and re-raises what it raises.
_save_stats(backend_url, stats_list, post) ==
    IF stats_list = <<>> THEN [requests |-> <<>>, raised |-> FALSE]
    ELSE upload_stats(backend_url, stats_list, post)

\* ------------------------------------------------------------ the sweep

VARIABLES
    cfg,            \* the resolved Settings (self.config)
    configurations, \* the work list built by scrape_all_configurations
    pc,             \* control position of the sweep, or of a direct call
    idx,            \* 1-based position in configurations of the for loop
    attempt,        \* the attempt loop variable, range(retry_attempts)
    plan,           \* plan[k]: the k-th GET for this configuration suffers a
                    \* transport failure (what the network will do)
    got,            \* how the GET of this attempt came back
    stats,          \* the list returned by _scrape_stats_page in this attempt
    wire,           \* POST requests issued in this attempt, in order
    postResult,     \* what the POST of this attempt ended in
    completed,      \* the completed counter
    failed,         \* the failed counter
    tries,          \* attempts started for this configuration
    retrySleeps,    \* retry-delay sleeps finished for this configuration
    cfgCompleted,   \* times this configuration incremented completed
    cfgFailed,      \* times this configuration incremented failed
    rateSleeps,     \* rate-limit sleeps finished in the sweep
    fetchIdx,       \* position of the configuration of the latest GET issued
    sleeping,       \* the time.sleep call in progress, or NoSleep
    exit_code,      \* the process exit status, NotExited while running
    call,           \* a direct call of a scraper method: its name and arguments
    ret             \* what that call returned, NoCall before it returns

vars ==
    << cfg, configurations, pc, idx, attempt, plan, got, stats, wire,
       postResult, completed, failed, tries, retrySleeps, cfgCompleted,
       cfgFailed, rateSleeps, fetchIdx, sleeping, exit_code, call, ret >>

\* No direct call: the methods are reached through the sweep only.
NoCall ==
    [fn |-> "none"]

NoSleep ==
    [kind |-> "none", secs |-> 0]

NotExited ==
    0 - 1

\* random.uniform(a, b) on whole seconds: any value between the two ends.
Uniform(pair) ==
    IF pair[1] <= pair[2] THEN pair[1]..pair[2] ELSE pair[2]..pair[1]

\* The locals of scrape_all_configurations and what was observed of the
\* configuration in hand, before the sweep has run.
Fresh ==
    /\ configurations = <<>>
    /\ idx = 1
    /\ attempt = 0
    /\ plan = <<>>
    /\ got = "none"
    /\ stats = <<>>
    /\ wire = <<>>
    /\ postResult = "none"
    /\ completed = 0
    /\ failed = 0
    /\ tries = 0
    /\ retrySleeps = 0
    /\ cfgCompleted = 0
    /\ cfgFailed = 0
    /\ rateSleeps = 0
    /\ fetchIdx = 0
    /\ sleeping = NoSleep

Init ==
    /\ cfg \in Settings
    /\ pc = "start"
    /\ exit_code = NotExited
    /\ call = NoCall
    /\ ret = NoCall
    /\ Fresh

\* Lines 236-260: build the work list, zero the counters.
BuildWorkList ==
    /\ pc = "start"
    /\ configurations' = BuildConfigurations(cfg)
    /\ completed' = 0
    /\ failed' = 0
    /\ idx' = 1
    /\ pc' = "loop"
    /\ UNCHANGED << cfg, attempt, plan, got, stats, wire, postResult, tries,
                 retrySleeps, cfgCompleted, cfgFailed, rateSleeps, fetchIdx,
                 sleeping, exit_code >>
    /\ UNCHANGED << call, ret >>

\* Line 262: the for loop takes the next configuration.
NextConfig ==
    /\ pc = "loop"
    /\ idx <= Len(configurations)
    /\ plan' \in [1..cfg.retry_attempts -> BOOLEAN]
    /\ attempt' = 0
    /\ got' = "none"
    /\ stats' = <<>>
    /\ wire' = <<>>
    /\ postResult' = "none"
    /\ tries' = 0
    /\ retrySleeps' = 0
    /\ cfgCompleted' = 0
    /\ cfgFailed' = 0
    /\ pc' = "attempt"
    /\ UNCHANGED << cfg, configurations, idx, completed, failed, rateSleeps,
                 fetchIdx, sleeping, exit_code >>
    /\ UNCHANGED << call, ret >>

\* Line 262: the for loop is exhausted.
LoopEnd ==
    /\ pc = "loop"
    /\ idx > Len(configurations)
    /\ pc' = "report"
    /\ UNCHANGED << cfg, configurations, idx, attempt, plan, got, stats, wire,
                 postResult, completed, failed, tries, retrySleeps,
                 cfgCompleted, cfgFailed, rateSleeps, fetchIdx, sleeping,
                 exit_code >>
    /\ UNCHANGED << call, ret >>

\* AttemptStart of a loop that makes its first attempt whatever
\* retry_attempts is.
AttemptStartAtLeastOnce ==
    /\ pc = "attempt"
    /\ attempt < cfg.retry_attempts \/ tries = 0
    /\ tries' = tries + 1
    /\ fetchIdx' = idx
    /\ got' = "none"
    /\ stats' = <<>>
    /\ wire' = <<>>
    /\ postResult' = "none"
    /\ pc' = "get"
    /\ UNCHANGED << cfg, configurations, idx, attempt, plan, completed, failed,
                    retrySleeps, cfgCompleted, cfgFailed, rateSleeps, sleeping,
                    exit_code >>
    /\ UNCHANGED << call, ret >>

\* Lines 263-265: range(retry_attempts) yields an attempt; the GET is issued.
AttemptStart ==
    /\ pc = "attempt"
    /\ attempt < cfg.retry_attempts
    /\ tries' = tries + 1
    /\ fetchIdx' = idx
    /\ got' = "none"
    /\ stats' = <<>>
    /\ wire' = <<>>
    /\ postResult' = "none"
    /\ pc' = "get"
    /\ UNCHANGED << cfg, configurations, idx, attempt, plan, completed, failed,
                 retrySleeps, cfgCompleted, cfgFailed, rateSleeps, sleeping,
                 exit_code >>
    /\ UNCHANGED << call, ret >>


\* AttemptsExhausted with the rate-limit sleep on the success path only: a
\* configuration that exhausted its attempts is followed by no sleep.
AttemptsExhaustedSkipsSleep ==
    /\ pc = "attempt"
    /\ attempt >= cfg.retry_attempts
    /\ idx' = idx + 1
    /\ pc' = "loop"
    /\ UNCHANGED << cfg, configurations, attempt, plan, got, stats, wire,
                    postResult, completed, failed, tries, retrySleeps,
                    cfgCompleted, cfgFailed, rateSleeps, fetchIdx, sleeping,
                    exit_code >>
    /\ UNCHANGED << call, ret >>

\* Line 263: range(retry_attempts) is exhausted without a break.
AttemptsExhausted ==
    /\ pc = "attempt"
    /\ attempt >= cfg.retry_attempts
    /\ pc' = "rate_limit"
    /\ UNCHANGED << cfg, configurations, idx, attempt, plan, got, stats, wire,
                 postResult, completed, failed, tries, retrySleeps,
                 cfgCompleted, cfgFailed, rateSleeps, fetchIdx, sleeping,
                 exit_code >>
    /\ UNCHANGED << call, ret >>


\* How the GET came back, as _fetch_data tells the cases apart: the
\* transport failure, a body that is not JSON, JSON that is no object, an
\* object without "selected", or an object with it.
Outcome(resp) ==
    IF resp.kind = "object" /\ "selected" \notin DOMAIN resp.data
    THEN "no_selected"
    ELSE resp.kind

\* Line 265: the GET comes back and _scrape_stats_page returns or raises.
ScrapeStatsPage ==
    /\ pc = "get"
    /\ \E resp \in Responses :
         /\ (resp.kind \in TransportFailures) <=> plan[attempt + 1]
         /\ LET r == _scrape_stats_page(configurations[idx], resp) IN
            /\ got' = Outcome(resp)
            /\ stats' = r.stats
            /\ pc' = IF r.raised THEN "except" ELSE "save"
    /\ UNCHANGED << cfg, configurations, idx, attempt, plan, wire, postResult,
                 completed, failed, tries, retrySleeps, cfgCompleted,
                 cfgFailed, rateSleeps, fetchIdx, sleeping, exit_code >>
    /\ UNCHANGED << call, ret >>

\* Lines 266-268: _save_stats, then completed += 1 and break, unless it raised.
SaveStats ==
    /\ pc = "save"
    /\ \E post \in PostOutcomes :
         LET r == _save_stats(cfg.backend_url, stats, post) IN
         /\ wire' = wire \o r.requests
         /\ postResult' = IF r.requests = <<>> THEN "none" ELSE post
         /\ IF r.raised
            THEN /\ pc' = "except"
                 /\ UNCHANGED << completed, cfgCompleted >>
            ELSE /\ completed' = completed + 1
                 /\ cfgCompleted' = cfgCompleted + 1
                 /\ pc' = "rate_limit"
    /\ UNCHANGED << cfg, configurations, idx, attempt, plan, got, stats,
                 failed, tries, retrySleeps, cfgFailed, rateSleeps, fetchIdx,
                 sleeping, exit_code >>
    /\ UNCHANGED << call, ret >>


\* ExceptHandler with a handler that re-raises after the last attempt: the
\* exception leaves the sweep and main exits with status 1.
ExceptHandlerReraises ==
    /\ pc = "except"
    /\ IF attempt < cfg.retry_attempts - 1
       THEN /\ sleeping' = [kind |-> "retry", secs |-> cfg.retry_delay]
            /\ pc' = "retry_sleep"
            /\ UNCHANGED << attempt, failed, cfgFailed, exit_code >>
       ELSE /\ failed' = failed + 1
            /\ cfgFailed' = cfgFailed + 1
            /\ pc' = "crashed"
            /\ exit_code' = 1
            /\ UNCHANGED << attempt, sleeping >>
    /\ UNCHANGED << cfg, configurations, idx, plan, got, stats, wire,
                    postResult, completed, tries, retrySleeps, cfgCompleted,
                    rateSleeps, fetchIdx >>
    /\ UNCHANGED << call, ret >>

\* ExceptHandler with the bound off by one: it sleeps after the last attempt
\* too and never counts the configuration as failed.
ExceptHandlerSleepsAlways ==
    /\ pc = "except"
    /\ IF attempt < cfg.retry_attempts
       THEN /\ sleeping' = [kind |-> "retry", secs |-> cfg.retry_delay]
            /\ pc' = "retry_sleep"
            /\ UNCHANGED << attempt, failed, cfgFailed >>
       ELSE /\ failed' = failed + 1
            /\ cfgFailed' = cfgFailed + 1
            /\ attempt' = attempt + 1
            /\ pc' = "attempt"
            /\ UNCHANGED sleeping
    /\ UNCHANGED << cfg, configurations, idx, plan, got, stats, wire,
                    postResult, completed, tries, retrySleeps, cfgCompleted,
                    rateSleeps, fetchIdx, exit_code >>
    /\ UNCHANGED << call, ret >>

\* Lines 270-277: except Exception: sleep retry_delay before the next
\* attempt, or count the configuration as failed after the last one.
ExceptHandler ==
    /\ pc = "except"
    /\ IF attempt < cfg.retry_attempts - 1
       THEN /\ sleeping' = [kind |-> "retry", secs |-> cfg.retry_delay]
            /\ pc' = "retry_sleep"
            /\ UNCHANGED << attempt, failed, cfgFailed >>
       ELSE /\ failed' = failed + 1
            /\ cfgFailed' = cfgFailed + 1
            /\ attempt' = attempt + 1
            /\ pc' = "attempt"
            /\ UNCHANGED sleeping
    /\ UNCHANGED << cfg, configurations, idx, plan, got, stats, wire,
                 postResult, completed, tries, retrySleeps, cfgCompleted,
                 rateSleeps, fetchIdx, exit_code >>
    /\ UNCHANGED << call, ret >>

\* RetryWake of a loop that retries the step that raised: after the sleep
\* the upload is made again with the list the earlier fetch returned.
RetryWakeResumesUpload ==
    /\ pc = "retry_sleep"
    /\ sleeping' = NoSleep
    /\ retrySleeps' = retrySleeps + 1
    /\ attempt' = attempt + 1
    /\ pc' = IF wire # <<>> THEN "save" ELSE "attempt"
    /\ UNCHANGED << cfg, configurations, idx, plan, got, stats, wire,
                    postResult, completed, failed, tries, cfgCompleted,
                    cfgFailed, rateSleeps, fetchIdx, exit_code >>
    /\ UNCHANGED << call, ret >>

\* Line 275: time.sleep(retry_delay) returns; the attempt loop goes on.
RetryWake ==
    /\ pc = "retry_sleep"
    /\ sleeping' = NoSleep
    /\ retrySleeps' = retrySleeps + 1
    /\ attempt' = attempt + 1
    /\ pc' = "attempt"
    /\ UNCHANGED << cfg, configurations, idx, plan, got, stats, wire,
                 postResult, completed, failed, tries, cfgCompleted, cfgFailed,
                 rateSleeps, fetchIdx, exit_code >>
    /\ UNCHANGED << call, ret >>

\* Lines 279-281: delay = random.uniform(*rate_limit_delay); time.sleep(delay).
RateLimitSleep ==
    /\ pc = "rate_limit"
    /\ \E delay \in Uniform(cfg.rate_limit_delay) :
         sleeping' = [kind |-> "rate_limit", secs |-> delay]
    /\ pc' = "rate_sleep"
    /\ UNCHANGED << cfg, configurations, idx, attempt, plan, got, stats, wire,
                 postResult, completed, failed, tries, retrySleeps,
                 cfgCompleted, cfgFailed, rateSleeps, fetchIdx, exit_code >>
    /\ UNCHANGED << call, ret >>

\* Line 281: the rate-limit sleep returns; the for loop advances.
RateLimitWake ==
    /\ pc = "rate_sleep"
    /\ sleeping' = NoSleep
    /\ rateSleeps' = rateSleeps + 1
    /\ idx' = idx + 1
    /\ pc' = "loop"
    /\ UNCHANGED << cfg, configurations, attempt, plan, got, stats, wire,
                 postResult, completed, failed, tries, retrySleeps,
                 cfgCompleted, cfgFailed, fetchIdx, exit_code >>
    /\ UNCHANGED << call, ret >>


\* Report followed by an exit status that tells of failed configurations.
ReportExitsOnFailures ==
    /\ pc = "report"
    /\ pc' = "done"
    /\ exit_code' = IF failed > 0 THEN 1 ELSE 0
    /\ UNCHANGED << cfg, configurations, idx, attempt, plan, got, stats, wire,
                    postResult, completed, failed, tries, retrySleeps,
                    cfgCompleted, cfgFailed, rateSleeps, fetchIdx, sleeping >>
    /\ UNCHANGED << call, ret >>

\* Line 283 and main: the totals are logged, scrape_all_configurations
\* returns and main returns.
Report ==
    /\ pc = "report"
    /\ pc' = "done"
    /\ exit_code' = 0
    /\ UNCHANGED << cfg, configurations, idx, attempt, plan, got, stats, wire,
                 postResult, completed, failed, tries, retrySleeps,
                 cfgCompleted, cfgFailed, rateSleeps, fetchIdx, sleeping >>
    /\ UNCHANGED << call, ret >>

\* Positions of the sweep (the others belong to direct calls).
SweepPositions ==
    { "start", "loop", "attempt", "get", "save", "except", "retry_sleep",
      "rate_limit", "rate_sleep", "report" }

\* main, except KeyboardInterrupt: an interrupt is no Exception, so it leaves
\* the sweep from wherever it is, unwinding scrape_all_configurations (its
\* locals are gone); main logs it and returns.
Interrupt ==
    /\ pc \in SweepPositions
    /\ pc' = "interrupted"
    /\ exit_code' = 0
    /\ configurations' = <<>>
    /\ idx' = 1
    /\ attempt' = 0
    /\ plan' = <<>>
    /\ got' = "none"
    /\ stats' = <<>>
    /\ wire' = <<>>
    /\ postResult' = "none"
    /\ completed' = 0
    /\ failed' = 0
    /\ tries' = 0
    /\ retrySleeps' = 0
    /\ cfgCompleted' = 0
    /\ cfgFailed' = 0
    /\ rateSleeps' = 0
    /\ fetchIdx' = 0
    /\ sleeping' = NoSleep
    /\ UNCHANGED cfg
    /\ UNCHANGED << call, ret >>

Next ==
    \/ BuildWorkList
    \/ NextConfig
    \/ LoopEnd
    \/ AttemptStart
    \/ AttemptsExhausted
    \/ ScrapeStatsPage
    \/ SaveStats
    \/ ExceptHandler
    \/ RetryWake
    \/ RateLimitSleep
    \/ RateLimitWake
    \/ Report
    \/ Interrupt

Spec ==
    Init /\ [][Next]_vars

\* The steps the sweep takes by itself; an interrupt comes from outside.
Sweep ==
    \/ BuildWorkList
    \/ NextConfig
    \/ LoopEnd
    \/ AttemptStart
    \/ AttemptsExhausted
    \/ ScrapeStatsPage
    \/ SaveStats
    \/ ExceptHandler
    \/ RetryWake
    \/ RateLimitSleep
    \/ RateLimitWake
    \/ Report

\* The sweep with its scheduling: the process is one thread that keeps
\* running, a GET or a POST ends (in a response or, at the latest when its
\* timeout expires, in an exception), and a sleep returns.
SpecLive ==
    Init /\ [][Next]_vars /\ WF_vars(Sweep)

\* ------------------------------------------- settings nothing validates

\* Settings.retry_attempts values no validation rules out: from below zero
\* up to MaxRetry.
UnvalidatedRetryChoices ==
    (0 - 1)..MaxRetry

\* Settings as the loader accepts them: any int as retry_attempts, any list
\* of strings for a dimension, empty ones and gamemodes in another letter
\* case included.
UnvalidatedSettings ==
    { [ base_url         |-> base_url,
        platforms        |-> p,
        regions          |-> r,
        gamemodes        |-> g,
        tiers            |-> t,
        maps             |-> m,
        retry_attempts   |-> n,
        retry_delay      |-> retry_delay,
        rate_limit_delay |-> <<2, 5>>,
        backend_url      |-> <<"http://localhost:3000">> ] :
        p \in {<<>>, <<"PC">>},
        r \in {<<>>, <<"Americas">>},
        g \in {<<>>, <<"Competitive">>, <<"competitive">>},
        t \in {<<>>, <<"All", "Bronze">>},
        m \in {<<>>, <<"All">>},
        n \in UnvalidatedRetryChoices }

\* A constructed scraper over such settings, before the sweep.
InitUnvalidated ==
    /\ cfg \in UnvalidatedSettings
    /\ pc = "start"
    /\ exit_code = NotExited
    /\ call = NoCall
    /\ ret = NoCall
    /\ Fresh

\* The sweep over such settings, with the scheduling of SpecLive.
SpecUnvalidated ==
    InitUnvalidated /\ [][Next]_vars /\ WF_vars(Sweep)

\* ------------------------------------------------- direct calls of the client

\* The record lists a caller can hand to the client: every list
\* _scrape_stats_page can return for a configuration of c.
UploadLists(c) ==
    LET work == BuildConfigurations(c) IN
    { _scrape_stats_page(work[i], resp).stats :
        i \in 1..Len(work), resp \in Responses }

\* A client built for backend_url and a record list, before the call.
InitClient ==
    /\ cfg \in Settings
    /\ pc = "call"
    /\ exit_code = NotExited
    /\ configurations = <<>>
    /\ idx = 1
    /\ attempt = 0
    /\ plan = <<>>
    /\ got = "none"
    /\ stats \in UploadLists(cfg)
    /\ wire = <<>>
    /\ postResult = "none"
    /\ completed = 0
    /\ failed = 0
    /\ tries = 0
    /\ retrySleeps = 0
    /\ cfgCompleted = 0
    /\ cfgFailed = 0
    /\ rateSleeps = 0
    /\ fetchIdx = 0
    /\ sleeping = NoSleep
    /\ call = NoCall
    /\ ret = NoCall

\* client.upload_stats(stats) called directly.
CallUploadStats ==
    /\ pc = "call"
    /\ \E post \in PostOutcomes :
         LET r == upload_stats(cfg.backend_url, stats, post) IN
         /\ wire' = r.requests
         /\ postResult' = IF r.requests = <<>> THEN "none" ELSE post
         /\ pc' = IF r.raised THEN "upload_stats raised" ELSE "upload_stats returned"
    /\ UNCHANGED << cfg, configurations, idx, attempt, plan, got, stats,
                 completed, failed, tries, retrySleeps, cfgCompleted,
                 cfgFailed, rateSleeps, fetchIdx, sleeping, exit_code >>
    /\ UNCHANGED << call, ret >>

\* scraper._save_stats(stats) called directly.
CallSaveStats ==
    /\ pc = "call"
    /\ \E post \in PostOutcomes :
         LET r == _save_stats(cfg.backend_url, stats, post) IN
         /\ wire' = r.requests
         /\ postResult' = IF r.requests = <<>> THEN "none" ELSE post
         /\ pc' = IF r.raised THEN "_save_stats raised" ELSE "_save_stats returned"
    /\ UNCHANGED << cfg, configurations, idx, attempt, plan, got, stats,
                 completed, failed, tries, retrySleeps, cfgCompleted,
                 cfgFailed, rateSleeps, fetchIdx, sleeping, exit_code >>
    /\ UNCHANGED << call, ret >>

NextClient ==
    \/ CallUploadStats
    \/ CallSaveStats

SpecClient ==
    InitClient /\ [][NextClient]_vars

\* ------------------------------------- direct calls of the scraper's methods

\* Argument values explored for direct calls: the configured values, and
\* spellings of them in other letter cases, with blanks, accents,
\* apostrophes, and names no table knows.
PlatformArgs ==
    {"PC", "Console"}

RegionArgs ==
    {"Americas", "Asia"}

RoleArgs ==
    {"all", "tank"}

GamemodeArgs ==
    {"Competitive", "COMPETITIVE", "competitive", "Quick Play", "Arcade"}

TierArgs ==
    {"All", "Bronze", "Grandmaster"}

MapArgs ==
    { "All", "all", "Busan", "BUSAN", " Busan ", "Busán", "King's Row",
      "Kings Row", "KING'S ROW", "Paraíso", "paraiso", "PARAÍSO", "Esperança",
      "Esperanca", "New Queen Street", "Temple of Anubis", "Throne of Anubis",
      "Horizon Lunar Colony" }

\* Settings.maps as the class declares it (the default).
DefaultMaps ==
    << "All", "Antarctic Peninsula", "Busan", "Ilios", "Lijiang Tower",
       "Nepal", "Oasis", "Samoa", "Circuit Royal", "Dorado", "Havana",
       "Junkertown", "Rialto", "Route 66", "Shambali Monastery",
       "Watchpoint: Gibraltar", "Aatlis", "New Junk City", "Suravasa",
       "Blizzard World", "Eichenwalde", "Hollywood", "King's Row", "Midtown",
       "Numbani", "Paraíso", "Colosseo", "Esperança", "New Queen Street",
       "Runasapi", "Hanaoka", "Temple of Anubis" >>

\* The map names _get_map_type is called with directly: MapArgs and every
\* default map.
MapTypeArgs ==
    MapArgs \cup {DefaultMaps[i] : i \in 1..Len(DefaultMaps)}

\* Configuration tuples handed to _scrape_stats_page directly: the one of
\* the repository's test, the spec's scenario, and two on a map.
PageArgs ==
    { [platform |-> "PC", region |-> "Americas", gamemode |-> "Competitive",
       map_name |-> "All", tier |-> "All"],
      [platform |-> "PC", region |-> "Americas", gamemode |-> "Quick Play",
       map_name |-> "All", tier |-> "All"],
      [platform |-> "Console", region |-> "Asia", gamemode |-> "Competitive",
       map_name |-> "King's Row", tier |-> "Grandmaster"],
      [platform |-> "pc", region |-> "Americas", gamemode |-> "competitive",
       map_name |-> "paraiso", tier |-> "Bronze"] }

\* HeroRate objects: the rows from_dict accepts whose id is a string.
HeroRates ==
    {r \in RowChoices : ~RowRaises(r) /\ ~TransformRaises(r)}

\* The direct calls explored.
PageCalls ==
         [ fn : {"_build_url"}, platform : PlatformArgs, region : RegionArgs,
           role : RoleArgs, gamemode : GamemodeArgs, map_name : MapArgs,
           tier : TierArgs ]
    \cup [ fn : {"_get_map_type"}, map : MapTypeArgs ]
    \cup [ fn : {"_transform_to_hero_stats"}, hero_rate : HeroRates,
           platform : PlatformArgs, region : RegionArgs,
           gamemode : GamemodeArgs, map_name : MapArgs, tier : TierArgs ]
    \cup [ fn : {"_scrape_stats_page"}, args : PageArgs, resp : Responses ]

\* A constructed scraper and a call about to be made on it.
InitPage ==
    /\ cfg \in {c \in Settings : c.retry_attempts = MaxRetry}
    /\ pc = "call"
    /\ exit_code = NotExited
    /\ call \in PageCalls
    /\ ret = NoCall
    /\ Fresh

\* scraper._build_url(platform, region, role, gamemode, map_name, tier).
CallBuildUrl ==
    /\ pc = "call"
    /\ call.fn = "_build_url"
    /\ ret' = [url |-> _build_url(cfg.base_url, call.platform, call.region,
                                  call.role, call.gamemode, call.map_name,
                                  call.tier)]
    /\ pc' = "returned"
    /\ UNCHANGED << cfg, configurations, idx, attempt, plan, got, stats, wire,
                    postResult, completed, failed, tries, retrySleeps,
                    cfgCompleted, cfgFailed, rateSleeps, fetchIdx, sleeping,
                    exit_code, call >>

\* scraper._get_map_type(map).
CallGetMapType ==
    /\ pc = "call"
    /\ call.fn = "_get_map_type"
    /\ ret' = [map_type |-> _get_map_type(call.map)]
    /\ pc' = "returned"
    /\ UNCHANGED << cfg, configurations, idx, attempt, plan, got, stats, wire,
                    postResult, completed, failed, tries, retrySleeps,
                    cfgCompleted, cfgFailed, rateSleeps, fetchIdx, sleeping,
                    exit_code, call >>

\* scraper._transform_to_hero_stats(hero_rate, platform, region, gamemode,
\* map_name, tier).
CallTransform ==
    /\ pc = "call"
    /\ call.fn = "_transform_to_hero_stats"
    /\ ret' = [record |-> _transform_to_hero_stats(call.hero_rate,
                              call.platform, call.region, call.gamemode,
                              call.map_name, call.tier)]
    /\ pc' = "returned"
    /\ UNCHANGED << cfg, configurations, idx, attempt, plan, got, stats, wire,
                    postResult, completed, failed, tries, retrySleeps,
                    cfgCompleted, cfgFailed, rateSleeps, fetchIdx, sleeping,
                    exit_code, call >>

\* scraper._scrape_stats_page(platform, region, gamemode, map_name, tier):
\* the GET goes to url and comes back with call.resp.
CallScrapeStatsPage ==
    /\ pc = "call"
    /\ call.fn = "_scrape_stats_page"
    /\ LET r == _scrape_stats_page(call.args, call.resp) IN
       /\ ret' = [url |-> RequestUrl(cfg.base_url, call.args), stats |-> r.stats]
       /\ pc' = IF r.raised THEN "raised" ELSE "returned"
    /\ UNCHANGED << cfg, configurations, idx, attempt, plan, got, stats, wire,
                    postResult, completed, failed, tries, retrySleeps,
                    cfgCompleted, cfgFailed, rateSleeps, fetchIdx, sleeping,
                    exit_code, call >>

NextPage ==
    \/ CallBuildUrl
    \/ CallGetMapType
    \/ CallTransform
    \/ CallScrapeStatsPage

SpecPage ==
    InitPage /\ [][NextPage]_vars

\* ------------------------------------------------------------------ claims

\* The set of elements of a sequence.
Range(seq) ==
    {seq[i] : i \in 1..Len(seq)}

\* C1: an exception raised while a configuration is processed (by the
\* transform or by the upload) is caught by the retry loop: the sweep neither
\* exits nor leaves the configuration before the handler has decided. Before
\* the last attempt the handler goes to the retry sleep and counts nothing;
\* after the last attempt it counts the configuration as failed, once, and
\* from there the sweep goes through the rate-limit sleep to the next
\* position of the work list, counting nothing more for this configuration.
C1_ErrorCaughtThenSkipped ==
    [][ /\ (pc = "except" /\ pc' # "interrupted") =>
            /\ exit_code' = NotExited
            /\ idx' = idx
            /\ completed' = completed
            /\ cfgCompleted' = 0
            /\ IF tries < cfg.retry_attempts
               THEN pc' = "retry_sleep" /\ failed' = failed /\ cfgFailed' = 0
               ELSE pc' = "attempt" /\ failed' = failed + 1 /\ cfgFailed' = 1
        /\ (cfgFailed = 1 /\ pc' # "interrupted" /\ pc # "loop") =>
            /\ failed' = failed
            /\ completed' = completed
            /\ cfgFailed' = 1
            /\ pc = "attempt" => pc' = "rate_limit"
            /\ pc = "rate_limit" => pc' = "rate_sleep"
            /\ pc = "rate_sleep" => (pc' = "loop" /\ idx' = idx + 1)
        /\ (pc = "loop" /\ pc' # "interrupted") =>
            /\ pc' = IF idx <= Len(configurations) THEN "attempt" ELSE "report"
            /\ idx' = idx
      ]_vars

\* C1 witness: a configuration was counted as failed and the GET of a later
\* configuration is in flight.
C1_Witness ==
    /\ failed >= 1
    /\ idx >= 2
    /\ pc = "get"

\* C2: a configuration gets at most retry_attempts attempts; a retry sleep
\* lasts retry_delay and is taken only after a failed attempt that is not the
\* last, so that while attempt number tries is under way tries - 1 sleeps
\* are done; a configuration counted as failed had retry_attempts attempts
\* and retry_attempts - 1 sleeps; a configuration counted as completed is
\* past its attempt loop (no further attempt follows a success).
C2_RetryBudget ==
    /\ tries <= cfg.retry_attempts
    /\ cfgCompleted + cfgFailed <= 1
    /\ sleeping.kind = "retry" =>
         /\ pc = "retry_sleep"
         /\ sleeping.secs = cfg.retry_delay
         /\ tries < cfg.retry_attempts
    /\ pc \in {"get", "save", "except", "retry_sleep"} => retrySleeps = tries - 1
    /\ pc = "attempt" =>
         retrySleeps = IF tries < cfg.retry_attempts \/ tries = 0
                       THEN tries ELSE tries - 1
    /\ cfgFailed = 1 =>
         /\ tries = cfg.retry_attempts
         /\ retrySleeps = cfg.retry_attempts - 1
    /\ cfgCompleted = 1 =>
         /\ pc \in {"rate_limit", "rate_sleep", "loop", "report", "done"}
         /\ retrySleeps = tries - 1

\* C2 witness: a configuration exhausted retry_attempts >= 2 attempts.
C2_Witness ==
    /\ cfg.retry_attempts >= 2
    /\ cfgFailed = 1
    /\ retrySleeps = cfg.retry_attempts - 1
    /\ pc = "rate_limit"

\* C3: when the network fails the first retry_attempts - 1 GETs of a
\* configuration and answers the next one, the configuration is counted as
\* completed once, not as failed, after retry_attempts - 1 retry sleeps.
C3_RetryThenSuccess ==
    ( /\ pc = "rate_limit"
      /\ cfg.retry_attempts >= 2
      /\ \A k \in 1..(cfg.retry_attempts - 1) : plan[k]
      /\ ~plan[cfg.retry_attempts] )
    => ( /\ cfgCompleted = 1
         /\ cfgFailed = 0
         /\ retrySleeps = cfg.retry_attempts - 1 )

\* C4: for every configuration of the work list, _scrape_stats_page returns
\* the empty list and raises nothing when the GET ends in a connection
\* error, a timeout or a non-2xx status; in the sweep, such an attempt goes
\* on to _save_stats with an empty list and never to the except handler.
C4_TransportFailureYieldsEmpty ==
    /\ \A i \in 1..Len(configurations) : \A k \in TransportFailures :
         LET r == _scrape_stats_page(configurations[i], [kind |-> k, data |-> <<>>]) IN
         ~r.raised /\ r.stats = <<>>
    /\ got \in TransportFailures =>
         /\ stats = <<>>
         /\ pc \notin {"except", "retry_sleep"}
         /\ cfgFailed = 0

\* C4 witness: the GET of an attempt ended in a non-2xx status and
\* _scrape_stats_page has returned.
C4_Witness ==
    /\ got = "http_error"
    /\ pc = "save"
    /\ stats = <<>>

\* C5: a POST that ends in a transport failure or a non-2xx status does not
\* raise out of upload_stats: the attempt is not retried (it counts the
\* configuration as completed, never as failed), and the sweep goes on.
C5_FailedUploadSwallowed ==
    /\ \A post \in TransportFailures :
         stats # <<>> => ~upload_stats(cfg.backend_url, stats, post).raised
    /\ postResult \in TransportFailures =>
         /\ pc \in {"rate_limit", "rate_sleep", "loop", "report", "done"}
         /\ cfgCompleted = 1
         /\ cfgFailed = 0
         /\ exit_code # 1

\* C5 witness: the POST of an attempt timed out and the configuration was
\* counted as completed.
C5_Witness ==
    /\ postResult = "timeout"
    /\ wire # <<>>
    /\ pc = "rate_limit"
    /\ cfgCompleted = 1

\* C6: handing an empty record list to upload_stats or to _save_stats issues
\* no POST and returns normally.
C6_EmptyUploadIsNoOp ==
    (stats = <<>> /\ pc # "call") =>
        /\ wire = <<>>
        /\ postResult = "none"
        /\ pc \in {"upload_stats returned", "_save_stats returned"}

\* C6 witness: upload_stats was called with the empty list and has returned.
C6_Witness ==
    /\ stats = <<>>
    /\ pc = "upload_stats returned"

\* C7: one call of upload_stats with a non-empty list issues exactly one POST,
\* whatever the POST ends in, to the backend URL without trailing slashes
\* followed by /api/v1/heroes/batch, and its body holds the records of the
\* list, all of them, in the order of the list.
C7_OnePostWholeBatch ==
    (stats # <<>> /\ pc \in {"upload_stats returned", "upload_stats raised"}) =>
        /\ Len(wire) = 1
        /\ wire[1].url = <<"http://localhost:3000", "/api/v1/heroes/batch">>
        /\ Len(wire[1].json) = Len(stats)
        /\ \A i \in 1..Len(stats) : wire[1].json[i] = stats[i]

\* C7 witness: upload_stats was called with two records, the POST found no
\* connection, and the call has returned.
C7_Witness ==
    /\ Len(stats) = 2
    /\ stats[1] # stats[2]
    /\ postResult = "connection_error"
    /\ pc = "upload_stats returned"

RECURSIVE TierSlots(_, _)
\* Sum over the gamemodes of the number of tiers each contributes: the
\* length of tiers for "Competitive", 1 for any other gamemode.
TierSlots(gamemodes, tiers) ==
    IF gamemodes = <<>> THEN 0
    ELSE (IF Head(gamemodes) = "Competitive" THEN Len(tiers) ELSE 1)
         + TierSlots(Tail(gamemodes), tiers)

\* C8: once built, the work list holds exactly the tuples of platform x
\* region x gamemode x tier-set x map, the tier-set being the tiers list for
\* "Competitive" and {"All"} otherwise, each tuple once; its length is
\* |platforms| * |regions| * |maps| * (sum of the tier-set sizes).
C8_WorkListIsProduct ==
    pc \in (SweepPositions \ {"start"}) \cup {"done"} =>
        LET tierSet(g) == IF g = "Competitive" THEN Range(cfg.tiers) ELSE {"All"}
            product ==
              { t \in [ platform : Range(cfg.platforms),
                        region   : Range(cfg.regions),
                        gamemode : Range(cfg.gamemodes),
                        map_name : Range(cfg.maps),
                        tier     : Range(cfg.tiers) \cup {"All"} ] :
                  t.tier \in tierSet(t.gamemode) }
        IN  /\ Range(configurations) = product
            /\ \A i, j \in 1..Len(configurations) :
                 i # j => configurations[i] # configurations[j]
            /\ Len(configurations) =
                 Len(cfg.platforms) * Len(cfg.regions) * Len(cfg.maps)
                   * TierSlots(cfg.gamemodes, cfg.tiers)

\* C8 witness: a work list of six configurations built from gamemodes that
\* include "Competitive" and two tiers.
C8_Witness ==
    /\ pc = "loop"
    /\ Len(configurations) = 6
    /\ "Competitive" \in Range(cfg.gamemodes)
    /\ Len(cfg.tiers) = 2

\* Position of x in the sequence seq.
IndexOf(seq, x) ==
    CHOOSE k \in 1..Len(seq) : seq[k] = x

\* The nested-loop coordinates of a configuration: the positions of its
\* platform, region, gamemode, tier and map in their lists.
LoopCoordinates(c) ==
    << IndexOf(cfg.platforms, c.platform),
       IndexOf(cfg.regions, c.region),
       IndexOf(cfg.gamemodes, c.gamemode),
       IndexOf(IF c.gamemode = "Competitive" THEN cfg.tiers ELSE <<"All">>, c.tier),
       IndexOf(cfg.maps, c.map_name) >>

\* Lexicographic order on coordinates.
LexLess(a, b) ==
    \E k \in 1..Len(a) :
        /\ a[k] < b[k]
        /\ \A j \in 1..(k - 1) : a[j] = b[j]

\* C9: the work list is in nested-loop order (platform outermost, then
\* region, gamemode, tier, map: each configuration comes lexicographically
\* before the next one); the GETs go through it one position at a
\* time, in order; and every POST on the wire carries records of the
\* configuration whose GET was the latest issued, so that no upload for a
\* configuration is issued after the fetch of a later one has started.
C9_NestedLoopOrder ==
    /\ [] ( pc \in (SweepPositions \ {"start"}) \cup {"done"} =>
              /\ \A i \in 1..(Len(configurations) - 1) :
                   LexLess(LoopCoordinates(configurations[i]),
                           LoopCoordinates(configurations[i + 1]))
              /\ pc \in {"get", "save", "except", "retry_sleep"} => fetchIdx = idx
              /\ wire # <<>> =>
                   /\ fetchIdx \in 1..Len(configurations)
                   /\ \A k \in 1..Len(wire) : \A n \in 1..Len(wire[k].json) :
                        LET rec == wire[k].json[n]
                            c   == configurations[fetchIdx]
                        IN  /\ rec.platform = Lower(c.platform)
                            /\ rec.region = Lower(c.region)
                            /\ rec.gamemode = Lower(c.gamemode)
                            /\ rec.tier = Lower(c.tier)
                            /\ rec.map = Lower(c.map_name) )
    /\ [][ pc' # "interrupted" =>
             /\ idx' \in {idx, idx + 1}
             /\ fetchIdx' # fetchIdx =>
                  /\ fetchIdx' = idx
                  /\ fetchIdx' > fetchIdx
                  /\ cfg.retry_attempts >= 1 => fetchIdx' = fetchIdx + 1
         ]_vars

\* C9 witness: the upload for the sixth and last configuration of a work
\* list is on the wire.
C9_Witness ==
    /\ Len(configurations) = 6
    /\ idx = 6
    /\ wire # <<>>
    /\ completed + failed = 5

\* C10: every rate-limit sleep lasts between rate_limit_delay.min and
\* rate_limit_delay.max and follows a configuration that was completed or
\* has exhausted its attempts; while configuration number idx is in hand
\* exactly idx - 1 such sleeps are done (one per earlier configuration, each
\* before the next configuration's first GET), and at the end one per
\* configuration. With platforms [PC, Console], one region, "Quick Play"
\* and one map the sweep has two configurations, PC first, each counted
\* once and followed by one rate-limit sleep.
C10_OneRateLimitSleepPerConfiguration ==
    /\ sleeping.kind = "rate_limit" =>
         /\ pc = "rate_sleep"
         /\ cfg.rate_limit_delay[1] <= sleeping.secs
         /\ sleeping.secs <= cfg.rate_limit_delay[2]
    /\ pc = "rate_sleep" =>
         /\ sleeping.kind = "rate_limit"
         /\ cfg.retry_attempts >= 1 => cfgCompleted + cfgFailed = 1
    /\ pc \in SweepPositions \ {"start", "report"} => rateSleeps = idx - 1
    /\ pc \in {"report", "done"} =>
         /\ rateSleeps = Len(configurations)
         /\ idx = Len(configurations) + 1
    /\ ( /\ pc \in {"report", "done"}
         /\ cfg.platforms = <<"PC", "Console">>
         /\ cfg.regions = <<"Americas">>
         /\ cfg.gamemodes = <<"Quick Play">>
         /\ cfg.maps = <<"All">> ) =>
         /\ Len(configurations) = 2
         /\ configurations[1].platform = "PC"
         /\ configurations[2].platform = "Console"
         /\ rateSleeps = 2
         /\ cfg.retry_attempts >= 1 => completed + failed = 2

\* C10 witness: the two-platform sweep has ended, one configuration
\* completed and one failed, after two rate-limit sleeps.
C10_Witness ==
    /\ pc = "done"
    /\ cfg.platforms = <<"PC", "Console">>
    /\ completed = 1
    /\ failed = 1
    /\ rateSleeps = 2

\* C11: whatever the settings and however the GETs and POSTs end, a run that
\* is not interrupted reaches the end of the sweep: the for loop has gone
\* through the whole work list (one rate-limit sleep per configuration), the
\* totals are reported and, with retry_attempts >= 1, every configuration is
\* counted in completed or in failed.
C11_SweepTerminates ==
    <>( \/ pc = "interrupted"
        \/ /\ pc = "done"
           /\ idx = Len(configurations) + 1
           /\ rateSleeps = Len(configurations)
           /\ completed + failed =
                IF cfg.retry_attempts >= 1 THEN Len(configurations) ELSE 0 )

\* C11 witness: a sweep of six configurations has ended with configurations
\* of both outcomes.
C11_Witness ==
    /\ pc = "done"
    /\ Len(configurations) = 6
    /\ completed >= 1
    /\ failed >= 1
    /\ completed + failed = 6

WellFormedRow(rate) ==
    ~RowRaises(rate) /\ ~TransformRaises(rate)

\* C13: for a valid envelope (an object with "rates", "extrema" and
\* "selected"), _scrape_stats_page returns, and what it returns is one
\* record per well-formed row, in row order: all the rows when every one is
\* well-formed, and the well-formed ones when some are not.
C13_OneRecordPerWellFormedRow ==
    ( /\ call.fn = "_scrape_stats_page"
      /\ pc # "call"
      /\ call.resp.kind = "object"
      /\ DOMAIN call.resp.data = {"rates", "extrema", "selected"} )
    => LET kept == SelectSeq(call.resp.data.rates, WellFormedRow) IN
       /\ pc = "returned"
       /\ ret.stats = [i \in 1..Len(kept) |->
                        _transform_to_hero_stats(kept[i], call.args.platform,
                            call.args.region, call.args.gamemode,
                            call.args.map_name, call.args.tier)]

\* C14: when the GET of an attempt comes back with a body that is not JSON,
\* that is JSON but no object, or that is an object without "selected",
\* _scrape_stats_page returns the empty list and raises nothing (the attempt
\* never reaches the except handler), and the attempt issues no POST.
C14_MalformedResponseYieldsEmpty ==
    got \in {"not_json", "not_object", "no_selected"} =>
        /\ stats = <<>>
        /\ wire = <<>>
        /\ postResult = "none"
        /\ pc \notin {"except", "retry_sleep"}
        /\ cfgFailed = 0

\* C14 witness: the GET came back with an object without "selected" and the
\* attempt is over, nothing posted.
C14_Witness ==
    /\ got = "no_selected"
    /\ pc = "rate_limit"
    /\ wire = <<>>

\* C15: for (PC, Americas, Quick Play, All, All) and a 2xx body with
\* "selected" and the single rate row {id: "genji", cells: {pickrate: 12.5,
\* winrate: 48.2}, hero: {name: "Genji", role: "damage"}},
\* _scrape_stats_page returns exactly one record: hero_id "genji", pick_rate
\* 12.5, win_rate 48.2, region "americas", platform "pc", gamemode "quick
\* play", map "all", tier "all", map_type "".
C15_EndToEndScenario ==
    ( /\ call.fn = "_scrape_stats_page"
      /\ pc # "call"
      /\ call.args = [platform |-> "PC", region |-> "Americas",
                      gamemode |-> "Quick Play", map_name |-> "All",
                      tier |-> "All"]
      /\ call.resp.kind = "object"
      /\ "selected" \in DOMAIN call.resp.data
      /\ "rates" \in DOMAIN call.resp.data
      /\ call.resp.data.rates = <<SparseRow>> )
    => /\ pc = "returned"
       /\ Len(ret.stats) = 1
       /\ ret.stats[1].hero_id = "genji"
       /\ ret.stats[1].pick_rate = 125
       /\ ret.stats[1].win_rate = 482
       /\ ret.stats[1].region = "americas"
       /\ ret.stats[1].platform = "pc"
       /\ ret.stats[1].gamemode = "quick play"
       /\ ret.stats[1].map = "all"
       /\ ret.stats[1].tier = "all"
       /\ ret.stats[1].map_type = ""

\* t is the lower-cased form of s: the same characters in the same order,
\* except that each upper-case letter of s is its lower-case letter in t.
IsLowerCasedForm(t, s) ==
    /\ Len(Chars[t]) = Len(Chars[s])
    /\ \A i \in 1..Len(Chars[s]) :
         IF \E k \in DOMAIN UpperCase : UpperCase[k] = Chars[s][i]
         THEN \E k \in DOMAIN UpperCase :
                 UpperCase[k] = Chars[s][i] /\ LowerCase[k] = Chars[t][i]
         ELSE Chars[t][i] = Chars[s][i]

C17_RecordsEchoArguments ==
    ( /\ call.fn = "_scrape_stats_page"
      /\ pc # "call"
      /\ call.resp.kind = "object"
      /\ DOMAIN call.resp.data = {"rates", "extrema", "selected"}
      /\ call.resp.data.rates # <<>>
      /\ \A i \in 1..Len(call.resp.data.rates) :
           WellFormedRow(call.resp.data.rates[i]) )
    => /\ pc = "returned"
       /\ ret.stats # <<>>
       /\ \A i \in 1..Len(ret.stats) :
            /\ ret.stats[i].platform = call.args.platform
            /\ ret.stats[i].region = call.args.region
            /\ ret.stats[i].gamemode = call.args.gamemode
            /\ ret.stats[i].map = call.args.map_name

\* The map types of the game.
MapTypes ==
    {"control", "escort", "hybrid", "push", "flashpoint", "clash"}

\* The characters of a name with letter case, accents and apostrophes
\* taken away: lower-cased, each accented letter replaced by its base
\* letter, apostrophes left out.
FoldChars(chars) ==
    LET unaccent(c) == CASE c = "á" -> "a" [] c = "í" -> "i"
                         [] c = "ç" -> "c" [] OTHER -> c
        noApostrophe(c) == c # "'"
    IN  SelectSeq([i \in DOMAIN chars |-> unaccent(LowerChar(chars[i]))],
                  noApostrophe)

\* Two names that differ only in letter case, accents or apostrophes.
SameFolded(a, b) ==
    FoldChars(Chars[a]) = FoldChars(Chars[b])

\* Two names that differ only in letter case.
SameIgnoringCase(a, b) ==
    [i \in DOMAIN Chars[a] |-> LowerChar(Chars[a][i])]
      = [i \in DOMAIN Chars[b] |-> LowerChar(Chars[b][i])]

\* C18 as stated: _get_map_type returns for every name; the result is "" or
\* a map type, "" for a name of no map; and two names that differ only in
\* letter case, accents or apostrophes get the same result.
C18_MapTypeFoldsAccentsAndApostrophes ==
    (call.fn = "_get_map_type" /\ pc # "call") =>
        /\ pc = "returned"
        /\ ret.map_type \in MapTypes \cup {""}
        /\ call.map = "Horizon Lunar Colony" => ret.map_type = ""
        /\ \A other \in MapArgs :
             SameFolded(call.map, other) => _get_map_type(other) = ret.map_type

\* The names the table lists in two spellings, lower-cased: with and without
\* the accent, with and without the apostrophe.
ListedSpellings ==
    { {"paraíso", "paraiso"}, {"esperança", "esperanca"},
      {"king's row", "kings row"} }

\* Two names that differ only in letter case, or that are, letter case
\* aside, the two listed spellings of one map.
SameListedName(a, b) ==
    \/ SameIgnoringCase(a, b)
    \/ \E pair \in ListedSpellings :
         /\ \E x \in pair : SameIgnoringCase(a, x)
         /\ \E y \in pair : SameIgnoringCase(b, y)

\* C18, amended: _get_map_type returns for every name; the result is "" or
\* a map type, "" for a name of no map; two names that differ only in letter
\* case get the same result, and so do the two spellings the table lists of
\* Paraíso, Esperança and King's Row, in any letter case.
C18_MapTypeOfListedSpellings ==
    (call.fn = "_get_map_type" /\ pc # "call") =>
        /\ pc = "returned"
        /\ ret.map_type \in MapTypes \cup {""}
        /\ call.map = "Horizon Lunar Colony" => ret.map_type = ""
        /\ \A other \in MapArgs :
             SameListedName(call.map, other) => _get_map_type(other) = ret.map_type

\* C18 witness: the map type of "PARAÍSO" is that of "paraiso", a map type
\* of the game.
C18_Witness ==
    /\ call.fn = "_get_map_type"
    /\ pc = "returned"
    /\ call.map = "PARAÍSO"
    /\ ret.map_type = _get_map_type("paraiso")
    /\ ret.map_type = "hybrid"

\* The positions in a URL at which the parameter key starts: after the "?"
\* or an "&", and followed by "=".
ParamPositions(url, key) ==
    { i \in 2..(Len(url) - 2) :
        url[i - 1] \in {"?", "&"} /\ url[i] = key /\ url[i + 1] = "=" }

\* The value of the parameter key in a URL that has it once.
UrlParam(url, key) ==
    url[(CHOOSE i \in ParamPositions(url, key) : TRUE) + 2]

\* C19: the URL _build_url returns has one rq parameter, "1" when the
\* gamemode is "Competitive" in any letter case and "0" for any other
\* gamemode; so has the URL _scrape_stats_page requests.
C19_RankedFlag ==
    /\ (call.fn = "_build_url" /\ pc # "call") =>
         /\ pc = "returned"
         /\ Cardinality(ParamPositions(ret.url, "rq")) = 1
         /\ UrlParam(ret.url, "rq") =
              IF SameIgnoringCase(call.gamemode, "Competitive") THEN "1" ELSE "0"
    /\ (call.fn = "_scrape_stats_page" /\ pc # "call") =>
         /\ Cardinality(ParamPositions(ret.url, "rq")) = 1
         /\ UrlParam(ret.url, "rq") =
              IF SameIgnoringCase(call.args.gamemode, "Competitive") THEN "1" ELSE "0"

\* C19 witness: the URL built for the gamemode "COMPETITIVE" has rq=1.
C19_Witness ==
    /\ call.fn = "_build_url"
    /\ pc = "returned"
    /\ call.gamemode = "COMPETITIVE"
    /\ UrlParam(ret.url, "rq") = "1"

\* t is s lower-cased with every blank replaced by a hyphen.
IsHyphenatedLowerForm(t, s) ==
    /\ Len(Chars[t]) = Len(Chars[s])
    /\ \A i \in 1..Len(Chars[s]) :
         IF Chars[s][i] = " " THEN Chars[t][i] = "-"
         ELSE IF \E k \in DOMAIN UpperCase : UpperCase[k] = Chars[s][i]
         THEN \E k \in DOMAIN UpperCase :
                 UpperCase[k] = Chars[s][i] /\ LowerCase[k] = Chars[t][i]
         ELSE Chars[t][i] = Chars[s][i]

\* The URL is base?input=..&map=..&region=..&role=..&rq=..&tier=.. with the
\* six parameters in this order, carrying platform, the map token of
\* map_name, region, role, a flag and tier.
IsRequestUrl(url, base, platform, region, role, map_name, tier) ==
    LET keys == <<"input", "map", "region", "role", "rq", "tier">> IN
    /\ Len(url) = 25
    /\ url[1] = base
    /\ url[2] = "?"
    /\ \A k \in 1..6 :
         /\ url[4 * k - 1] = keys[k]
         /\ url[4 * k] = "="
         /\ k < 6 => url[4 * k + 2] = "&"
    /\ url[5] = platform
    /\ IF map_name = "All" THEN url[9] = "all-maps"
       ELSE IsHyphenatedLowerForm(url[9], map_name)
    /\ url[13] = region
    /\ url[17] = role
    /\ url[21] \in {"0", "1"}
    /\ url[25] = tier

\* C20: the URL _build_url returns has the parameters input, map, region,
\* role, rq and tier, in this order, after the base URL; its map parameter
\* is "all-maps" for the map "All" and otherwise the map name lower-cased
\* with every blank replaced by a hyphen; the other parameters carry the
\* arguments as they are. The URL _scrape_stats_page requests is that of its
\* five arguments with role "all".
C20_RequestUrl ==
    /\ (call.fn = "_build_url" /\ pc # "call") =>
         /\ pc = "returned"
         /\ IsRequestUrl(ret.url, cfg.base_url, call.platform, call.region,
                         call.role, call.map_name, call.tier)
    /\ (call.fn = "_scrape_stats_page" /\ pc # "call") =>
         IsRequestUrl(ret.url, cfg.base_url, call.args.platform,
                      call.args.region, "all", call.args.map_name,
                      call.args.tier)

\* C20 witness: the URL built for the map "New Queen Street" has
\* map=new-queen-street.
C20_Witness ==
    /\ call.fn = "_build_url"
    /\ pc = "returned"
    /\ call.map_name = "New Queen Street"
    /\ UrlParam(ret.url, "map") = "new-queen-street"

\* ------------------------------------------------------------ construction

\* Settings fields followed through load_config, with their defaults.
SettingsDefaults ==
    [retry_attempts |-> 3, log_level |-> "INFO"]

\* The environment variable of a field: env_prefix "OW_" and the field name.
EnvVar ==
    [retry_attempts |-> "OW_RETRY_ATTEMPTS", log_level |-> "OW_LOG_LEVEL"]

\* Contents of config.json explored: no file (or an empty object), and
\* objects giving one or both fields.
FileChoices ==
    { <<>>,
      [retry_attempts |-> 1],
      [log_level |-> "DEBUG"],
      [retry_attempts |-> 1, log_level |-> "DEBUG"] }

\* Process environments explored: empty, one or both variables set, and a
\* variable without the prefix.
EnvChoices ==
    { <<>>,
      [OW_RETRY_ATTEMPTS |-> "2"],
      [OW_LOG_LEVEL |-> "WARNING"],
      [OW_RETRY_ATTEMPTS |-> "2", OW_LOG_LEVEL |-> "WARNING"],
      [RETRY_ATTEMPTS |-> "2"] }

\* int(text) for the decimal texts of the environments explored.
\* The value pydantic validates a field to from the text of its environment
\* variable: an int field parses the decimal text, a str field keeps it.
FromEnv(key, text) ==
    IF key = "retry_attempts"
    THEN CHOOSE n \in 0..2 : ToString(n) = text
    ELSE text

\* The sources Settings() reads, highest priority first. The class does not
\* override settings_customise_sources, so these are the defaults of
\* BaseSettings: the constructor arguments (load_config passes none), the
\* environment, the dotenv file and the secrets directory (model_config
\* names neither). model_config's json_file is read by a
\* JsonConfigSettingsSource only, which is not among them.
SettingsSources ==
    <<"init", "env", "dotenv", "secrets">>

\* What a source provides: the fields it has a value for, with the values.
SourceValues(source, file, env) ==
    IF source = "env"
    THEN [ key \in {k \in DOMAIN EnvVar : EnvVar[k] \in DOMAIN env} |->
             FromEnv(key, env[EnvVar[key]]) ]
    ELSE IF source = "json_file" THEN file
    ELSE <<>>

\* load_config() = Settings(): every field takes the value of the first
\* source that provides it, and its default when none does.
load_config(file, env) ==
    [ key \in DOMAIN SettingsDefaults |->
        LET providing == { i \in 1..Len(SettingsSources) :
                key \in DOMAIN SourceValues(SettingsSources[i], file, env) }
        IN  IF providing = {} THEN SettingsDefaults[key]
            ELSE LET first == CHOOSE i \in providing :
                                \A j \in providing : i <= j
                 IN  SourceValues(SettingsSources[first], file, env)[key] ]

\* Positional argument lists of a direct BackendClient(...) call: a logger
\* and a backend_url, or a backend_url alone.
ClientArgs ==
         {<<l, u>> : l \in LoggerArgs, u \in BackendUrlArgs}
    \cup {<<u>> : u \in BackendUrlArgs}

\* The constructor calls explored.
ConstructCalls ==
         [fn : {"BackendClient"}, args : ClientArgs]
    \cup [fn : {"OverwatchScraper"}]
    \cup [fn : {"load_config"}, file : FileChoices, env : EnvChoices]

\* The global config the scraper is constructed from: the settings explored,
\* with any of the backend_url values.
ConstructSettings ==
    { [c EXCEPT !.backend_url = u] :
        c \in {s \in Settings : s.retry_attempts = MaxRetry},
        u \in BackendUrlArgs }

\* The process before anything is constructed, and a constructor call about
\* to be made.
InitConstruct ==
    /\ cfg \in ConstructSettings
    /\ pc = "call"
    /\ exit_code = NotExited
    /\ call \in ConstructCalls
    /\ ret = NoCall
    /\ Fresh

\* BackendClient(*args) called directly.
CallBackendClient ==
    /\ pc = "call"
    /\ call.fn = "BackendClient"
    /\ ret' = BackendClient(call.args)
    /\ pc' = IF BackendClient(call.args).raised # "none"
             THEN "raised" ELSE "returned"
    /\ UNCHANGED << cfg, configurations, idx, attempt, plan, got, stats, wire,
                    postResult, completed, failed, tries, retrySleeps,
                    cfgCompleted, cfgFailed, rateSleeps, fetchIdx, sleeping,
                    exit_code, call >>

\* OverwatchScraper() called, as main does at its first line.
CallOverwatchScraper ==
    /\ pc = "call"
    /\ call.fn = "OverwatchScraper"
    /\ ret' = OverwatchScraper(cfg)
    /\ pc' = IF OverwatchScraper(cfg).raised # "none"
             THEN "raised" ELSE "returned"
    /\ UNCHANGED << cfg, configurations, idx, attempt, plan, got, stats, wire,
                    postResult, completed, failed, tries, retrySleeps,
                    cfgCompleted, cfgFailed, rateSleeps, fetchIdx, sleeping,
                    exit_code, call >>

\* load_config() called, as the config module does when it is imported, with
\* config.json and the environment as the call names them.
CallLoadConfig ==
    /\ pc = "call"
    /\ call.fn = "load_config"
    /\ ret' = load_config(call.file, call.env)
    /\ pc' = "returned"
    /\ UNCHANGED << cfg, configurations, idx, attempt, plan, got, stats, wire,
                    postResult, completed, failed, tries, retrySleeps,
                    cfgCompleted, cfgFailed, rateSleeps, fetchIdx, sleeping,
                    exit_code, call >>

NextConstruct ==
    \/ CallBackendClient
    \/ CallOverwatchScraper
    \/ CallLoadConfig

SpecConstruct ==
    InitConstruct /\ [][NextConstruct]_vars

\* C21: constructing the backend client with an empty backend_url raises
\* ValueError out of the constructor, with no GET and no POST issued before;
\* with any non-empty backend_url, whatever its content and whatever the
\* logger, the constructor returns a client.
C21_EmptyBackendUrlFailsFast ==
    ( /\ call.fn = "BackendClient"
      /\ Len(call.args) = 2
      /\ pc \in {"returned", "raised"} )
    => /\ call.args[2] = <<>>
          => /\ pc = "raised"
             /\ ret.raised = "ValueError"
             /\ tries = 0
             /\ fetchIdx = 0
             /\ wire = <<>>
       /\ call.args[2] # <<>>
          => /\ pc = "returned"
             /\ ret.raised = "none"
             /\ ret.logger = call.args[1]

\* C21 witness: a client constructed with a logger and the empty backend_url
\* has raised ValueError.
C21_Witness ==
    /\ call.fn = "BackendClient"
    /\ Len(call.args) = 2
    /\ call.args[2] = <<>>
    /\ pc = "raised"
    /\ ret.raised = "ValueError"

\* C22: every setting resolves by the precedence defaults < config file <
\* environment: the value of its environment variable if that is set,
\* otherwise the value config.json gives it if it gives one, otherwise the
\* built-in default.
C22_ResolutionPrecedence ==
    (call.fn = "load_config" /\ pc = "returned")
    => \A key \in DOMAIN SettingsDefaults :
         ret[key] = IF EnvVar[key] \in DOMAIN call.env
                    THEN FromEnv(key, call.env[EnvVar[key]])
                    ELSE IF key \in DOMAIN call.file
                         THEN call.file[key]
                         ELSE SettingsDefaults[key]

\* The object bodies that differ from data in their "extrema" field at most.
SameButExtrema(data) ==
    { b \in ObjectBodies :
        /\ DOMAIN b \ {"extrema"} = DOMAIN data \ {"extrema"}
        /\ \A k \in DOMAIN b \ {"extrema"} : b[k] = data[k] }

\* C23: for an envelope with a "selected" key and well-formed rate rows, the
\* records _scrape_stats_page produces are the same whatever the "extrema"
\* field holds and whether it is there or not.
C23_ExtremaIgnored ==
    ( /\ call.fn = "_scrape_stats_page"
      /\ pc \in {"returned", "raised"}
      /\ call.resp.kind = "object"
      /\ "selected" \in DOMAIN call.resp.data
      /\ "rates" \in DOMAIN call.resp.data
      /\ \A i \in 1..Len(call.resp.data.rates) :
           WellFormedRow(call.resp.data.rates[i]) )
    => \A b \in SameButExtrema(call.resp.data) :
         LET r == _scrape_stats_page(call.args, [kind |-> "object", data |-> b])
         IN  /\ ~r.raised
             /\ pc = "returned"
             /\ r.stats = ret.stats

\* Settings under which the claim expects no work: a retry count below 1, or
\* an empty platforms, regions, gamemodes or maps list.
ZeroWork(c) ==
    \/ c.retry_attempts <= 0
    \/ c.platforms = <<>>
    \/ c.regions = <<>>
    \/ c.gamemodes = <<>>
    \/ c.maps = <<>>

\* C24: with retry_attempts <= 0 or an empty platforms, regions, gamemodes
\* or maps list the sweep makes no attempt, issues no GET and no POST, never
\* enters the except handler or crashes, leaves completed and failed at 0,
\* and ends with the report and exit status 0 (or with the operator's
\* interrupt).
C24_DegenerateSettingsDoNoWork ==
    /\ [](ZeroWork(cfg)
            => /\ tries = 0
               /\ fetchIdx = 0
               /\ got = "none"
               /\ wire = <<>>
               /\ completed = 0
               /\ failed = 0
               /\ pc \in {"start", "loop", "attempt", "rate_limit",
                          "rate_sleep", "report", "done", "interrupted"}
               /\ exit_code \in {NotExited, 0})
    /\ (ZeroWork(cfg) => <>(pc \in {"done", "interrupted"} /\ exit_code = 0))

\* C24 witness: a sweep with a retry count below zero over a non-empty work
\* list has ended, having slept after every configuration.
C24_Witness ==
    /\ cfg.retry_attempts < 0
    /\ configurations # <<>>
    /\ pc = "done"
    /\ rateSleeps = Len(configurations)
    /\ completed = 0
    /\ failed = 0

\* The configurations whose attempt loop has ended: those the for loop has
\* left behind and, once its attempt loop is over, the one in hand.
Processed ==
    IF \/ pc \in {"rate_limit", "rate_sleep"}
       \/ pc = "attempt" /\ attempt >= cfg.retry_attempts
    THEN idx
    ELSE idx - 1

\* C25: while the sweep runs, no step decreases completed or failed and no
\* step adds more than one to their sum; with retry_attempts >= 1 their sum
\* is the number of configurations processed so far, each configuration
\* having incremented one of the two, once; at the report and after it the
\* sum is the length of the work list.
C25_CountersCountConfigurations ==
    /\ [][pc' # "interrupted"
            => /\ completed' >= completed
               /\ failed' >= failed
               /\ (completed' + failed') - (completed + failed) \in {0, 1}]_vars
    /\ []((cfg.retry_attempts >= 1 /\ pc \in (SweepPositions \ {"start"}))
            => /\ completed + failed = Processed
               /\ cfgCompleted + cfgFailed <= 1)
    /\ []((cfg.retry_attempts >= 1 /\ pc \in {"report", "done"})
            => completed + failed = Len(configurations))

\* C25 witness: a sweep has ended with some configurations completed and
\* some failed, every one of them counted once.
C25_Witness ==
    /\ cfg.retry_attempts >= 1
    /\ pc = "done"
    /\ completed >= 1
    /\ failed >= 1
    /\ completed + failed = Len(configurations)

\* The GET of the latest attempt ended in a transport failure or came back
\* with a malformed response.
FetchFailed ==
    got \in TransportFailures \cup {"not_json", "not_object", "no_selected"}

\* C26: a configuration is counted as completed only if the fetch of its
\* last attempt obtained an object with "selected"; once the attempts of a
\* configuration are over with a failed fetch last, it has been counted as
\* failed and not as completed.
C26_CompletedNeedsValidEnvelope ==
    /\ cfgCompleted >= 1 => got = "object"
    /\ (pc = "rate_limit" /\ tries >= 1 /\ FetchFailed)
         => cfgFailed = 1 /\ cfgCompleted = 0

\* The tiers the work list holds for a gamemode.
TiersListed(gamemode) ==
    { configurations[i].tier :
        i \in { j \in 1..Len(configurations) :
                  configurations[j].gamemode = gamemode } }

\* C27: for every configuration of the work list, whatever the letter case
\* of its gamemode, the request URL carries rq = "1" exactly when the tiers
\* of its gamemode were drawn from the configured tiers list, and rq = "0"
\* exactly when the tier was forced to "All" (for a configured tiers list
\* that can be told from the forced one).
C27_TierExpansionMatchesRankedFlag ==
    (pc \in (SweepPositions \ {"start"}) /\ cfg.tiers \notin {<<>>, <<"All">>})
    => \A i \in 1..Len(configurations) :
         LET gamemode == configurations[i].gamemode
             rq == UrlParam(RequestUrl(cfg.base_url, configurations[i]), "rq")
         IN  /\ rq = "1" <=> TiersListed(gamemode) = Range(cfg.tiers)
             /\ rq = "0" <=> TiersListed(gamemode) = {"All"}

\* C28: every map of the default maps list other than "All" resolves through
\* _get_map_type to one of the six map types, and the empty map type comes
\* out only for "All" and for names that are not in the default list.
C28_DefaultMapsHaveAType ==
    (call.fn = "_get_map_type" /\ pc = "returned")
    => /\ call.map \in (Range(DefaultMaps) \ {"All"})
            => ret.map_type \in MapTypes
       /\ ret.map_type = ""
            => call.map = "All" \/ call.map \notin Range(DefaultMaps)

\* C29: with any non-empty backend_url, OverwatchScraper() returns a scraper
\* whose client posts to the backend_url without its trailing slashes
\* followed by /api/v1/heroes/batch: the constructor call supplies every
\* argument BackendClient requires, and every keyword the transform passes
\* to HeroStatsUpload is a field of that record type.
C29_ScraperConstructs ==
    ( /\ call.fn = "OverwatchScraper"
      /\ pc \in {"returned", "raised"}
      /\ cfg.backend_url # <<>> )
    => /\ pc = "returned"
       /\ ret.raised = "none"
       /\ ret.client.batch_upload_url
            = RStripSlash(cfg.backend_url) \o <<"/api/v1/heroes/batch">>
       /\ TransformKeywords \subseteq HeroStatsUploadFields

\* C30: within one attempt the GET is issued once, when the attempt starts,
\* and _save_stats is entered only as the step after that GET came back; an
\* attempt issues at most one POST, only when the list its own fetch
\* returned is non-empty, and with that list as the body; an attempt after
\* a failed upload starts with a new GET, so no list is posted twice.
C30_OneFetchThenAtMostOneUpload ==
    /\ [](pc \in SweepPositions => Len(wire) <= 1)
    /\ []((pc \in SweepPositions /\ wire # <<>>)
            => /\ got = "object"
               /\ stats # <<>>
               /\ wire[1].json = [i \in 1..Len(stats) |-> asdict(stats[i])])
    /\ [][pc' = "get" => (pc = "attempt" /\ tries' = tries + 1)]_vars
    /\ [][pc' = "save" => (pc = "get" /\ tries' = tries)]_vars
    /\ [][(wire' # wire /\ wire' # <<>>)
            => (pc = "save" /\ wire = <<>> /\ stats' = stats)]_vars

\* C30 witness: a second attempt, made after the first one raised, has
\* fetched again and posted the list of its own fetch.
C30_Witness ==
    /\ tries = 2
    /\ retrySleeps = 1
    /\ got = "object"
    /\ Len(wire) = 1
    /\ postResult = "ok"
    /\ cfgCompleted = 1

====
